---- MODULE Spec2Model ----
(***************************************************************************)
(* The job matching and scoring engine of the resume generator:            *)
(* technology-name matching, the five job sub-scores, project /            *)
(* achievement / skill scoring, bounded content selection, technology      *)
(* coverage and the matchAgainstRequirements orchestrator.                 *)
(*                                                                         *)
(* Strings on which the code computes (toLowerCase, includes, replace,     *)
(* split, parseInt) are sequences of one-character strings.  Optional      *)
(* fields are sequences of length 0 (absent) or 1 (present).  Scores are   *)
(* exact rationals held as integers in units of 1/ScoreOne.                *)
(***************************************************************************)
EXTENDS Integers, Sequences, FiniteSets, TLC

-----------------------------------------------------------------------------
(* const declarations: the value is computed once and bound to a name *)

With(value, rest(_)) ==
  rest(value)

With2(first, second, rest(_, _)) ==
  rest(first, second)

-----------------------------------------------------------------------------
(* JavaScript strings *)

UpperChars ==
  <<"A","B","C","D","E","F","G","H","I","J","K","L","M",
    "N","O","P","Q","R","S","T","U","V","W","X","Y","Z">>

LowerChars ==
  <<"a","b","c","d","e","f","g","h","i","j","k","l","m",
    "n","o","p","q","r","s","t","u","v","w","x","y","z">>

DigitChars ==
  <<"0","1","2","3","4","5","6","7","8","9">>

(* the characters the regular-expression class \s and String.trim remove *)
WhitespaceChars ==
  {" "}

toLowerChar(c) ==
  IF \E i \in 1..Len(UpperChars) : UpperChars[i] = c
  THEN LowerChars[CHOOSE i \in 1..Len(UpperChars) : UpperChars[i] = c]
  ELSE c

(* the character U+0131, LATIN SMALL LETTER DOTLESS I: toLowerCase leaves *)
(* it alone and toUpperCase maps it to "I"                               *)
DotlessI ==
  "i-dotless"

toUpperChar(c) ==
  IF \E i \in 1..Len(LowerChars) : LowerChars[i] = c
  THEN UpperChars[CHOOSE i \in 1..Len(LowerChars) : LowerChars[i] = c]
  ELSE IF c = DotlessI THEN "I"
  ELSE c

toLowerCase(s) ==
  [i \in 1..Len(s) |-> toLowerChar(s[i])]

RECURSIVE trimStart(_)
trimStart(s) ==
  IF s # <<>> /\ Head(s) \in WhitespaceChars THEN trimStart(Tail(s)) ELSE s

RECURSIVE trimEnd(_)
trimEnd(s) ==
  IF s # <<>> /\ s[Len(s)] \in WhitespaceChars
  THEN trimEnd(SubSeq(s, 1, Len(s) - 1))
  ELSE s

trim(s) ==
  trimEnd(trimStart(s))

(* String.prototype.includes *)
includes(s, sub) ==
  \E i \in 0..(Len(s) - Len(sub)) : SubSeq(s, i + 1, i + Len(sub)) = sub

(* Array.prototype.includes / some(x => x === v) on a sequence *)
arrayIncludes(arr, v) ==
  \E i \in 1..Len(arr) : arr[i] = v

(* s.replace(/[.\-_\s]/g, '') *)
IsSeparatorChar(c) ==
  c \in ({".", "-", "_"} \cup WhitespaceChars)

stripSeparators(s) ==
  SelectSeq(s, LAMBDA c : ~IsSeparatorChar(c))

(* s.split('-')[0] *)
RECURSIVE beforeDash(_)
beforeDash(s) ==
  IF s = <<>> \/ Head(s) = "-" THEN <<>> ELSE <<Head(s)>> \o beforeDash(Tail(s))

-----------------------------------------------------------------------------
(* technology-matcher.ts *)

TECH_ALIASES ==
  <<
    (* JavaScript *)
    [canonical |-> <<"J","a","v","a","S","c","r","i","p","t">>,
     aliases |-> << <<"J","S">>,
                  <<"j","a","v","a","s","c","r","i","p","t">>,
                  <<"e","s","6">>,
                  <<"e","c","m","a","s","c","r","i","p","t">>,
                  <<"e","s","2","0","1","5">>,
                  <<"e","s","2","0","2","0">> >>],
    (* TypeScript *)
    [canonical |-> <<"T","y","p","e","S","c","r","i","p","t">>,
     aliases |-> << <<"T","S">>,
                  <<"t","y","p","e","s","c","r","i","p","t">> >>],
    (* React Native *)
    [canonical |-> <<"R","e","a","c","t"," ","N","a","t","i","v","e">>,
     aliases |-> << <<"r","e","a","c","t","-","n","a","t","i","v","e">>,
                  <<"R","N">>,
                  <<"r","e","a","c","t","n","a","t","i","v","e">> >>],
    (* React *)
    [canonical |-> <<"R","e","a","c","t">>,
     aliases |-> << <<"r","e","a","c","t","j","s">>,
                  <<"r","e","a","c","t",".","j","s">> >>],
    (* Node.js *)
    [canonical |-> <<"N","o","d","e",".","j","s">>,
     aliases |-> << <<"n","o","d","e","j","s">>,
                  <<"n","o","d","e">>,
                  <<"n","o","d","e",".","j","s">> >>],
    (* Next.js *)
    [canonical |-> <<"N","e","x","t",".","j","s">>,
     aliases |-> << <<"n","e","x","t","j","s">>,
                  <<"n","e","x","t",".","j","s">>,
                  <<"n","e","x","t">> >>],
    (* Swift *)
    [canonical |-> <<"S","w","i","f","t">>,
     aliases |-> << <<"s","w","i","f","t">>,
                  <<"i","o","s">> >>],
    (* Kotlin *)
    [canonical |-> <<"K","o","t","l","i","n">>,
     aliases |-> << <<"k","o","t","l","i","n">>,
                  <<"a","n","d","r","o","i","d">> >>],
    (* Objective-C *)
    [canonical |-> <<"O","b","j","e","c","t","i","v","e","-","C">>,
     aliases |-> << <<"o","b","j","c">>,
                  <<"o","b","j","e","c","t","i","v","e","-","c">>,
                  <<"o","b","j","-","c">> >>],
    (* PostgreSQL *)
    [canonical |-> <<"P","o","s","t","g","r","e","S","Q","L">>,
     aliases |-> << <<"p","o","s","t","g","r","e","s">>,
                  <<"p","o","s","t","g","r","e","s","q","l">>,
                  <<"p","s","q","l">>,
                  <<"p","g">> >>],
    (* MongoDB *)
    [canonical |-> <<"M","o","n","g","o","D","B">>,
     aliases |-> << <<"m","o","n","g","o">>,
                  <<"m","o","n","g","o","d","b">> >>],
    (* MySQL *)
    [canonical |-> <<"M","y","S","Q","L">>,
     aliases |-> << <<"m","y","s","q","l">> >>],
    (* Redis *)
    [canonical |-> <<"R","e","d","i","s">>,
     aliases |-> << <<"r","e","d","i","s">> >>],
    (* Docker *)
    [canonical |-> <<"D","o","c","k","e","r">>,
     aliases |-> << <<"d","o","c","k","e","r">>,
                  <<"c","o","n","t","a","i","n","e","r","s">> >>],
    (* Kubernetes *)
    [canonical |-> <<"K","u","b","e","r","n","e","t","e","s">>,
     aliases |-> << <<"k","8","s">>,
                  <<"k","u","b","e","r","n","e","t","e","s">>,
                  <<"k","u","b","e">> >>],
    (* AWS *)
    [canonical |-> <<"A","W","S">>,
     aliases |-> << <<"a","w","s">>,
                  <<"a","m","a","z","o","n"," ","w","e","b"," ","s","e","r","v","i","c","e","s">>,
                  <<"s","3">>,
                  <<"e","c","2">>,
                  <<"l","a","m","b","d","a">> >>],
    (* GCP *)
    [canonical |-> <<"G","C","P">>,
     aliases |-> << <<"g","c","p">>,
                  <<"g","o","o","g","l","e"," ","c","l","o","u","d">>,
                  <<"g","o","o","g","l","e"," ","c","l","o","u","d"," ","p","l","a","t","f","o","r","m">> >>],
    (* Azure *)
    [canonical |-> <<"A","z","u","r","e">>,
     aliases |-> << <<"a","z","u","r","e">>,
                  <<"m","i","c","r","o","s","o","f","t"," ","a","z","u","r","e">> >>],
    (* GitHub Actions *)
    [canonical |-> <<"G","i","t","H","u","b"," ","A","c","t","i","o","n","s">>,
     aliases |-> << <<"g","i","t","h","u","b"," ","a","c","t","i","o","n","s">>,
                  <<"g","h","a">>,
                  <<"g","i","t","h","u","b","-","a","c","t","i","o","n","s">> >>],
    (* GitLab CI *)
    [canonical |-> <<"G","i","t","L","a","b"," ","C","I">>,
     aliases |-> << <<"g","i","t","l","a","b"," ","c","i">>,
                  <<"g","i","t","l","a","b","-","c","i">>,
                  <<"g","i","t","l","a","b"," ","p","i","p","e","l","i","n","e","s">> >>],
    (* CircleCI *)
    [canonical |-> <<"C","i","r","c","l","e","C","I">>,
     aliases |-> << <<"c","i","r","c","l","e","c","i">>,
                  <<"c","i","r","c","l","e"," ","c","i">>,
                  <<"c","i","r","c","l","e","-","c","i">> >>],
    (* Fastlane *)
    [canonical |-> <<"F","a","s","t","l","a","n","e">>,
     aliases |-> << <<"f","a","s","t","l","a","n","e">> >>],
    (* Firebase *)
    [canonical |-> <<"F","i","r","e","b","a","s","e">>,
     aliases |-> << <<"f","i","r","e","b","a","s","e">>,
                  <<"f","i","r","e","s","t","o","r","e">> >>],
    (* GraphQL *)
    [canonical |-> <<"G","r","a","p","h","Q","L">>,
     aliases |-> << <<"g","r","a","p","h","q","l">>,
                  <<"g","q","l">> >>],
    (* REST *)
    [canonical |-> <<"R","E","S","T">>,
     aliases |-> << <<"r","e","s","t">>,
                  <<"r","e","s","t","f","u","l">>,
                  <<"r","e","s","t"," ","a","p","i">> >>],
    (* UIKit *)
    [canonical |-> <<"U","I","K","i","t">>,
     aliases |-> << <<"u","i","k","i","t">>,
                  <<"u","i"," ","k","i","t">> >>],
    (* SwiftUI *)
    [canonical |-> <<"S","w","i","f","t","U","I">>,
     aliases |-> << <<"s","w","i","f","t","u","i">>,
                  <<"s","w","i","f","t"," ","u","i">> >>],
    (* Jetpack Compose *)
    [canonical |-> <<"J","e","t","p","a","c","k"," ","C","o","m","p","o","s","e">>,
     aliases |-> << <<"j","e","t","p","a","c","k"," ","c","o","m","p","o","s","e">>,
                  <<"c","o","m","p","o","s","e">>,
                  <<"a","n","d","r","o","i","d"," ","c","o","m","p","o","s","e">> >>],
    (* Jest *)
    [canonical |-> <<"J","e","s","t">>,
     aliases |-> << <<"j","e","s","t">> >>],
    (* Cypress *)
    [canonical |-> <<"C","y","p","r","e","s","s">>,
     aliases |-> << <<"c","y","p","r","e","s","s">> >>],
    (* XCTest *)
    [canonical |-> <<"X","C","T","e","s","t">>,
     aliases |-> << <<"x","c","t","e","s","t">>,
                  <<"x","c","o","d","e"," ","t","e","s","t","i","n","g">> >>],
    (* Expo *)
    [canonical |-> <<"E","x","p","o">>,
     aliases |-> << <<"e","x","p","o">>,
                  <<"e","x","p","o","-","c","l","i">>,
                  <<"e","a","s">> >>],
    (* NestJS *)
    [canonical |-> <<"N","e","s","t","J","S">>,
     aliases |-> << <<"n","e","s","t","j","s">>,
                  <<"n","e","s","t",".","j","s">>,
                  <<"n","e","s","t">> >>],
    (* Fastify *)
    [canonical |-> <<"F","a","s","t","i","f","y">>,
     aliases |-> << <<"f","a","s","t","i","f","y">> >>],
    (* Express *)
    [canonical |-> <<"E","x","p","r","e","s","s">>,
     aliases |-> << <<"e","x","p","r","e","s","s">>,
                  <<"e","x","p","r","e","s","s","j","s">>,
                  <<"e","x","p","r","e","s","s",".","j","s">> >>],
    (* Python *)
    [canonical |-> <<"P","y","t","h","o","n">>,
     aliases |-> << <<"p","y","t","h","o","n">>,
                  <<"p","y">>,
                  <<"p","y","t","h","o","n","3">> >>],
    (* Go *)
    [canonical |-> <<"G","o">>,
     aliases |-> << <<"g","o","l","a","n","g">>,
                  <<"g","o">> >>],
    (* Rust *)
    [canonical |-> <<"R","u","s","t">>,
     aliases |-> << <<"r","u","s","t">>,
                  <<"r","u","s","t","l","a","n","g">> >>],
    (* Ruby *)
    [canonical |-> <<"R","u","b","y">>,
     aliases |-> << <<"r","u","b","y">>,
                  <<"r","a","i","l","s">>,
                  <<"r","u","b","y"," ","o","n"," ","r","a","i","l","s">> >>],
    (* Java *)
    [canonical |-> <<"J","a","v","a">>,
     aliases |-> << <<"j","a","v","a">>,
                  <<"j","v","m">> >>],
    (* SQLite *)
    [canonical |-> <<"S","Q","L","i","t","e">>,
     aliases |-> << <<"s","q","l","i","t","e">>,
                  <<"s","q","l","i","t","e","3">> >>],
    (* Supabase *)
    [canonical |-> <<"S","u","p","a","b","a","s","e">>,
     aliases |-> << <<"s","u","p","a","b","a","s","e">> >>],
    (* Heroku *)
    [canonical |-> <<"H","e","r","o","k","u">>,
     aliases |-> << <<"h","e","r","o","k","u">> >>],
    (* Dokku *)
    [canonical |-> <<"D","o","k","k","u">>,
     aliases |-> << <<"d","o","k","k","u">> >>],
    (* Ansible *)
    [canonical |-> <<"A","n","s","i","b","l","e">>,
     aliases |-> << <<"a","n","s","i","b","l","e">> >>],
    (* Terraform *)
    [canonical |-> <<"T","e","r","r","a","f","o","r","m">>,
     aliases |-> << <<"t","e","r","r","a","f","o","r","m">>,
                  <<"t","f">> >>]
  >>

aliasEntryMatches(entry, lower) ==
  \/ arrayIncludes(entry.aliases, lower)
  \/ toLowerCase(entry.canonical) = lower

capitalizeFirst(tech) ==
  IF tech = <<>> THEN <<>> ELSE <<toUpperChar(Head(tech))>> \o Tail(tech)

normalizeTechNameOf(tech) ==
  With(trim(toLowerCase(tech)), LAMBDA lower :
  With(SelectSeq(TECH_ALIASES, LAMBDA entry : aliasEntryMatches(entry, lower)), LAMBDA hits :
    IF hits # <<>> THEN hits[1].canonical ELSE capitalizeFirst(tech)))

techMatchesOf(tech1, tech2) ==
  With2(toLowerCase(normalizeTechNameOf(tech1)), toLowerCase(normalizeTechNameOf(tech2)),
    LAMBDA norm1, norm2 :
      \/ norm1 = norm2
      \/ includes(norm1, norm2)
      \/ includes(norm2, norm1)
      \/ stripSeparators(norm1) = stripSeparators(norm2))

(* The technology, skill and keyword names of the inputs below.  On these *)
(* names normalizeTechName and techMatches are tabulated once, from the   *)
(* definitions above; on any other name they are computed directly.       *)

Swift == <<"S","w","i","f","t">>
IosAlias == <<"i","o","s">>
NodeDotJs == <<"n","o","d","e",".","j","s">>
NodeName == <<"N","o","d","e">>
ReactName == <<"R","e","a","c","t">>
Elixir == <<"E","l","i","x","i","r">>
UIKit == <<"U","I","K","i","t">>
SwiftUI == <<"S","w","i","f","t","U","I">>
Backend == <<"B","a","c","k","e","n","d">>
Cobol == <<"C","o","b","o","l">>
Crashes == <<"c","r","a","s","h","e","s">>
TeamWord == <<"t","e","a","m">>

KnownNames ==
  {Swift, IosAlias, NodeDotJs, NodeName, ReactName, Elixir, UIKit, SwiftUI, Backend, Cobol,
   Crashes, TeamWord}

NormalizedNames ==
  {<<t, normalizeTechNameOf(t)>> : t \in KnownNames}

MatchingNames ==
  UNION {{<<a, b>> : b \in {c \in KnownNames : techMatchesOf(a, c)}} : a \in KnownNames}

normalizeTechName(tech) ==
  IF tech \in KnownNames
  THEN (CHOOSE p \in NormalizedNames : p[1] = tech)[2]
  ELSE normalizeTechNameOf(tech)

techMatches(tech1, tech2) ==
  IF tech1 \in KnownNames /\ tech2 \in KnownNames
  THEN <<tech1, tech2>> \in MatchingNames
  ELSE techMatchesOf(tech1, tech2)

(* a matcher that tries only the first candidate against each required name *)
findMatchingTechsFirstCandidate(candidates, requiredTechs) ==
  With([i \in 1..Len(requiredTechs) |->
          [name |-> normalizeTechName(requiredTechs[i]),
           found |-> candidates # <<>> /\ techMatches(candidates[1], requiredTechs[i])]],
    LAMBDA rows :
      With2(SelectSeq(rows, LAMBDA r : r.found), SelectSeq(rows, LAMBDA r : ~r.found),
        LAMBDA hit, miss :
          [matched |-> [k \in 1..Len(hit) |-> hit[k].name],
           missing |-> [k \in 1..Len(miss) |-> miss[k].name]]))

findMatchingTechs(candidateTechs, requiredTechs) ==
  With([i \in 1..Len(requiredTechs) |->
          [name |-> normalizeTechName(requiredTechs[i]),
           found |-> \E k \in 1..Len(candidateTechs) :
                       techMatches(candidateTechs[k], requiredTechs[i])]],
    LAMBDA rows :
      With2(SelectSeq(rows, LAMBDA r : r.found), SelectSeq(rows, LAMBDA r : ~r.found),
        LAMBDA hit, miss :
          [matched |-> [k \in 1..Len(hit) |-> hit[k].name],
           missing |-> [k \in 1..Len(miss) |-> miss[k].name]]))

-----------------------------------------------------------------------------
(* JavaScript numbers *)

(* 1.0 in score units: divisible by 1..10, by 20 and by 100, so that every *)
(* ratio, bonus and weight the scorers form is exact                       *)
ScoreOne ==
  2520 * 20

(* 1.0 in the units of the weight vector of MatchConfig (hundredths) *)
WeightOne ==
  10 * 10

(* 1.0 in the units of a weighted total: score units times weight units *)
TotalOne ==
  ScoreOne * WeightOne

(* n/100 in score units *)
Hundredths(n) ==
  (n * ScoreOne) \div 100

(* IEEE not-a-number, encoded outside the range of every finite value *)
NaN ==
  -(2^30)

IsNaN(a) ==
  a = NaN

numAdd(a, b) ==
  IF IsNaN(a) \/ IsNaN(b) THEN NaN ELSE a + b

numSub(a, b) ==
  IF IsNaN(a) \/ IsNaN(b) THEN NaN ELSE a - b

numMul(a, b) ==
  IF IsNaN(a) \/ IsNaN(b) THEN NaN ELSE a * b

(* a <= b, false when either side is NaN *)
numLe(a, b) ==
  ~IsNaN(a) /\ ~IsNaN(b) /\ a <= b

(* a < b, false when either side is NaN *)
numLt(a, b) ==
  ~IsNaN(a) /\ ~IsNaN(b) /\ a < b

MathMax(a, b) ==
  IF IsNaN(a) \/ IsNaN(b) THEN NaN ELSE IF a >= b THEN a ELSE b

MathMin(a, b) ==
  IF IsNaN(a) \/ IsNaN(b) THEN NaN ELSE IF a <= b THEN a ELSE b

IsDigit(c) ==
  \E i \in 1..Len(DigitChars) : DigitChars[i] = c

digitValue(c) ==
  (CHOOSE i \in 1..Len(DigitChars) : DigitChars[i] = c) - 1

RECURSIVE digitPrefix(_)
digitPrefix(s) ==
  IF s # <<>> /\ IsDigit(Head(s)) THEN <<Head(s)>> \o digitPrefix(Tail(s)) ELSE <<>>

RECURSIVE digitsValue(_)
digitsValue(d) ==
  IF d = <<>> THEN 0 ELSE 10 * digitsValue(SubSeq(d, 1, Len(d) - 1)) + digitValue(d[Len(d)])

(* parseInt(s, 10): leading whitespace, an optional sign, the longest run *)
(* of digits; NaN when there is no digit                                  *)
parseInt(s) ==
  With(trimStart(s), LAMBDA t :
  With(t # <<>> /\ Head(t) \in {"+", "-"}, LAMBDA signed :
  With(digitPrefix(IF signed THEN Tail(t) ELSE t), LAMBDA digits :
    IF digits = <<>> THEN NaN
    ELSE IF signed /\ Head(t) = "-" THEN 0 - digitsValue(digits)
    ELSE digitsValue(digits))))

(* optional fields: <<>> is undefined, <<v>> is the value v *)
Has(opt) ==
  opt # <<>>

Get(opt) ==
  opt[1]

(* opt ?? dflt *)
OrElse(opt, dflt) ==
  IF Has(opt) THEN Get(opt) ELSE dflt

-----------------------------------------------------------------------------
(* types/matching.ts: DEFAULT_MATCH_CONFIG *)

DEFAULT_MATCH_CONFIG ==
  [weights |-> [technology |-> 35, domain |-> 20, seniority |-> 15,
                recency |-> 15, relevance |-> 15],
   recencyDecay |-> Hundredths(10),
   minProjectsToShow |-> 2,
   maxProjectsToShow |-> 5,
   minAchievementsToShow |-> 3,
   maxAchievementsToShow |-> 8,
   minSkillsToShow |-> 8,
   maxSkillsToShow |-> 15]

-----------------------------------------------------------------------------
(* normalizer.ts: getJobEndYear; the clock read by new Date() *)

VARIABLES
  currentYear,         \* new Date().getFullYear()
  defaultMatchConfig,  \* the module-level object DEFAULT_MATCH_CONFIG
  jobs,                \* the caller's list of raw job records
  skills,              \* SkillsData: categories, featured, deprecated
  requirements,        \* JobRequirements
  config,              \* the MatchConfig passed to a scorer or selector
  options,             \* the MatchOptions of the last matchAgainstRequirements call
  result,              \* what the last operation returned
  retry                \* the generateWithRetry call of the Ollama client in progress

vars ==
  <<currentYear, defaultMatchConfig, jobs, skills, requirements, config, options, result,
    retry>>

getJobEndYear(job) ==
  IF ~Has(job.endDate) \/ Get(job.endDate) = <<>>
  THEN currentYear
  ELSE parseInt(beforeDash(Get(job.endDate)))

-----------------------------------------------------------------------------
(* scorers.ts: the five sub-scores of a job *)

keywordsNotBuzzwords(reqs) ==
  SelectSeq(reqs.keywords, LAMBDA k : ~arrayIncludes(reqs.buzzwords, k))

scoreTechnologyMatch(job, reqs) ==
  With(reqs.requiredTechnologies \o keywordsNotBuzzwords(reqs), LAMBDA allRequired :
    IF Len(allRequired) = 0 THEN Hundredths(50)
    ELSE With2(findMatchingTechs(job.technologies, allRequired).matched,
               findMatchingTechs(job.technologies, reqs.preferredTechnologies).matched,
           LAMBDA matched, prefMatched :
             MathMin(ScoreOne,
               (Len(matched) * ScoreOne) \div Len(allRequired)
               + (IF Len(reqs.preferredTechnologies) > 0
                  THEN (Len(prefMatched) * Hundredths(20)) \div Len(reqs.preferredTechnologies)
                  ELSE 0))))

FINTECH ==
  <<"f","i","n","t","e","c","h">>

CRYPTO ==
  <<"c","r","y","p","t","o">>

industryBonus(job, reqs) ==
  IF /\ Has(job.companyInfo) /\ Has(Get(job.companyInfo).industry)
     /\ Get(Get(job.companyInfo).industry) # <<>>
     /\ Has(reqs.domain) /\ Get(reqs.domain) # <<>>
  THEN With2(toLowerCase(Get(Get(job.companyInfo).industry)), toLowerCase(Get(reqs.domain)),
         LAMBDA jobIndustry, reqDomain :
           IF includes(jobIndustry, reqDomain) \/ includes(reqDomain, jobIndustry)
           THEN Hundredths(30) ELSE 0)
  ELSE 0

weightBonus(job, reqs) ==
  IF Has(job.relevanceWeights)
  THEN With(Get(job.relevanceWeights), LAMBDA weights :
           (IF reqs.domain = <<FINTECH>> \/ reqs.domain = <<CRYPTO>>
            THEN (OrElse(weights.mobile, 0) * 10) \div 100 ELSE 0)
         + (IF reqs.companyType = <<"startup">> \/ reqs.companyType = <<"scaleup">>
            THEN (OrElse(weights.startup, 0) * 15) \div 100 ELSE 0)
         + (IF reqs.companyType = <<"enterprise">> \/ reqs.companyType = <<"faang">>
            THEN (OrElse(weights.enterprise, 0) * 15) \div 100 ELSE 0)
         + (IF reqs.leadershipRequired
            THEN (OrElse(weights.leadership, 0) * 10) \div 100 ELSE 0))
  ELSE 0

keywordBonus(job, reqs) ==
  IF /\ Has(job.keywords) /\ Has(Get(job.keywords).domains)
     /\ Has(reqs.domain) /\ Get(reqs.domain) # <<>>
  THEN With2(Get(Get(job.keywords).domains), toLowerCase(Get(reqs.domain)),
         LAMBDA domains, reqDomain :
           IF \E i \in 1..Len(domains) : includes(toLowerCase(domains[i]), reqDomain)
           THEN Hundredths(20) ELSE 0)
  ELSE 0

scoreDomainMatch(job, reqs) ==
  MathMin(ScoreOne,
    Hundredths(50) + industryBonus(job, reqs) + weightBonus(job, reqs) + keywordBonus(job, reqs))

(* the levels in the order the type SeniorityLevel declares them *)
levelOrderAsDeclared ==
  <<"junior", "mid", "senior", "staff", "principal", "lead", "manager", "director">>

levelOrder ==
  <<"junior", "mid", "senior", "staff", "lead", "principal", "manager", "director">>

(* Array.prototype.indexOf, 0-based, -1 when absent *)
indexOf(arr, v) ==
  IF arrayIncludes(arr, v)
  THEN (CHOOSE i \in 1..Len(arr) : arr[i] = v /\ \A k \in 1..(i - 1) : arr[k] # v) - 1
  ELSE -1

scoreSeniorityMatch(job, reqs) ==
  With2(indexOf(levelOrder, OrElse(job.level, "mid")), indexOf(levelOrder, reqs.seniority),
    LAMBDA jobIndex, reqIndex :
      IF jobIndex = -1 \/ reqIndex = -1 THEN Hundredths(50)
      ELSE IF jobIndex = reqIndex THEN ScoreOne
      ELSE IF jobIndex = reqIndex + 1 THEN Hundredths(90)
      ELSE IF jobIndex = reqIndex - 1 THEN Hundredths(70)
      ELSE IF jobIndex < reqIndex - 1
           THEN MathMax(Hundredths(30),
                        Hundredths(70) - (reqIndex - jobIndex - 1) * Hundredths(15))
      ELSE Hundredths(80))

scoreRecency(job, cfg) ==
  With(numSub(currentYear, getJobEndYear(job)), LAMBDA yearsAgo :
    IF numLe(yearsAgo, 2) THEN ScoreOne
    ELSE MathMax(Hundredths(20),
                 numSub(ScoreOne, numMul(cfg.recencyDecay, numSub(yearsAgo, 2)))))

MobileTechnologies ==
  { <<"S","w","i","f","t">>, <<"K","o","t","l","i","n">>, <<"i","O","S">>,
    <<"A","n","d","r","o","i","d">>, <<"R","e","a","c","t"," ","N","a","t","i","v","e">> }

(* if (weights.w): the weight is declared and not 0 *)
Truthy(opt) ==
  Has(opt) /\ Get(opt) # 0 /\ ~IsNaN(Get(opt))

(* the weights the four branches of scoreRelevanceWeights add, in order *)
relevanceFactors(weights, reqs) ==
  With(reqs.companyType = <<"startup">> \/ reqs.companyType = <<"scaleup">>,
    LAMBDA startupBranch :
      SelectSeq(
        << [on |-> /\ \E i \in 1..Len(reqs.requiredTechnologies) :
                        reqs.requiredTechnologies[i] \in MobileTechnologies
                   /\ Truthy(weights.mobile),
            weight |-> weights.mobile],
           [on |-> /\ (\/ reqs.leadershipRequired
                       \/ reqs.seniority = "lead" \/ reqs.seniority = "manager")
                   /\ Truthy(weights.leadership),
            weight |-> weights.leadership],
           [on |-> startupBranch /\ Truthy(weights.startup),
            weight |-> weights.startup],
           [on |-> /\ ~startupBranch
                   /\ (reqs.companyType = <<"enterprise">> \/ reqs.companyType = <<"faang">>)
                   /\ Truthy(weights.enterprise),
            weight |-> weights.enterprise] >>,
        LAMBDA f : f.on))

RECURSIVE sumWeights(_)
sumWeights(factors) ==
  IF factors = <<>> THEN 0 ELSE Get(Head(factors).weight) + sumWeights(Tail(factors))

scoreRelevanceWeights(job, reqs) ==
  IF ~Has(job.relevanceWeights) THEN Hundredths(50)
  ELSE With(relevanceFactors(Get(job.relevanceWeights), reqs), LAMBDA factors :
         IF Len(factors) = 0 THEN Hundredths(50) ELSE sumWeights(factors) \div Len(factors))

weightedTotal(scores, weights) ==
  numAdd(numAdd(numAdd(numAdd(
    numMul(scores.technologyMatch, weights.technology),
    numMul(scores.domainMatch, weights.domain)),
    numMul(scores.seniorityMatch, weights.seniority)),
    numMul(scores.recency, weights.recency)),
    numMul(scores.relevanceWeight, weights.relevance))

matchedKeywords(job, reqs) ==
  SelectSeq(reqs.keywords, LAMBDA k :
    \/ \E i \in 1..Len(job.technologies) : techMatches(job.technologies[i], k)
    \/ \E i \in 1..Len(job.responsibilities) :
         includes(toLowerCase(job.responsibilities[i]), toLowerCase(k)))

scoreJob(job, reqs, cfg) ==
  With2([technologyMatch |-> scoreTechnologyMatch(job, reqs),
         domainMatch |-> scoreDomainMatch(job, reqs),
         seniorityMatch |-> scoreSeniorityMatch(job, reqs),
         recency |-> scoreRecency(job, cfg),
         relevanceWeight |-> scoreRelevanceWeights(job, reqs)],
        findMatchingTechs(job.technologies,
          reqs.requiredTechnologies \o reqs.preferredTechnologies),
    LAMBDA scores, both :
      [jobId |-> job.companyName \o <<"-">> \o job.startDate,
       companyName |-> job.companyName,
       title |-> job.title,
       scores |-> scores,
       totalScore |-> weightedTotal(scores, cfg.weights),
       matchedTechnologies |-> both.matched,
       missingTechnologies |-> both.missing,
       matchedKeywords |-> matchedKeywords(job, reqs)])
-----------------------------------------------------------------------------
(* Array.prototype.sort with a comparator: the stable insertion order.     *)
(* cmp[<<i, j>>] is the sign of comparator(arr[i], arr[j]); a comparator   *)
(* result of NaN counts as +0 (ECMAScript SortCompare).                    *)

RECURSIVE insertIndex(_, _, _)
insertIndex(cmp, sorted, x) ==
  IF sorted = <<>> THEN <<x>>
  ELSE IF cmp[<<sorted[Len(sorted)], x>>] > 0
       THEN Append(insertIndex(cmp, SubSeq(sorted, 1, Len(sorted) - 1), x), sorted[Len(sorted)])
       ELSE Append(sorted, x)

RECURSIVE sortedIndices(_, _)
sortedIndices(cmp, n) ==
  IF n = 0 THEN <<>> ELSE insertIndex(cmp, sortedIndices(cmp, n - 1), n)

arraySort(arr, cmp) ==
  LET p == sortedIndices(cmp, Len(arr))
  IN  [k \in 1..Len(arr) |-> arr[p[k]]]

(* the sign of b - a, +0 when the difference is NaN *)
descendingSign(a, b) ==
  With(numSub(b, a), LAMBDA d :
    IF IsNaN(d) \/ d = 0 THEN 0 ELSE IF d > 0 THEN 1 ELSE -1)

(* arr.slice(0, count) for count >= 0 *)
sliceFromStart(arr, count) ==
  SubSeq(arr, 1, IF count < Len(arr) THEN count ELSE Len(arr))

(* arr.flatMap over a sequence of sequences *)
RECURSIVE flatten(_)
flatten(seqs) ==
  IF seqs = <<>> THEN <<>> ELSE Head(seqs) \o flatten(Tail(seqs))

-----------------------------------------------------------------------------
(* scorers.ts: projects and achievements *)

(* /\d+%/.test(s) *)
hasPercentNumber(s) ==
  \E i \in 1..(Len(s) - 1) : IsDigit(s[i]) /\ s[i + 1] = "%"

(* /\d+%?/.test(s) *)
hasNumber(s) ==
  \E i \in 1..Len(s) : IsDigit(s[i])

scoreProject(project, reqs) ==
  With2(IF Has(project.technologies)
        THEN findMatchingTechs(Get(project.technologies),
               reqs.requiredTechnologies \o reqs.preferredTechnologies).matched
        ELSE <<>>,
        Has(project.impact) /\ Get(project.impact) # <<>>,
    LAMBDA matched, hasImpact :
      With([relevantImpact |->
              /\ hasImpact
              /\ \E i \in 1..Len(reqs.keywords) :
                   includes(toLowerCase(Get(project.impact)), toLowerCase(reqs.keywords[i])),
            quantified |-> hasImpact /\ hasPercentNumber(Get(project.impact)),
            led |-> /\ reqs.leadershipRequired
                    /\ Has(project.teamSize) /\ Get(project.teamSize) # 0
                    /\ Get(project.teamSize) > 1],
        LAMBDA is :
          With2(Hundredths(50)
                + Len(matched) * Hundredths(10)
                + (IF is.relevantImpact THEN Hundredths(15) ELSE 0)
                + (IF is.quantified THEN Hundredths(10) ELSE 0)
                + (IF is.led THEN Hundredths(10) ELSE 0),
                (IF Len(matched) > 0 THEN <<"Uses">> ELSE <<>>)
                \o (IF is.relevantImpact THEN <<"Relevant impact">> ELSE <<>>)
                \o (IF is.quantified THEN <<"Quantified impact">> ELSE <<>>)
                \o (IF is.led THEN <<"Led team">> ELSE <<>>),
            LAMBDA score, reasons :
              [name |-> project.name,
               technologies |-> project.technologies,
               impact |-> project.impact,
               teamSize |-> project.teamSize,
               score |-> MathMin(ScoreOne, score),
               matchedTechnologies |-> matched,
               relevanceReason |->
                 IF reasons = <<>> THEN <<"General relevance">> ELSE reasons])))

LeadershipVerbs ==
  { <<"l","e","d">>, <<"m","a","n","a","g","e","d">>, <<"m","e","n","t","o","r","e","d">>,
    <<"c","o","a","c","h","e","d">>, <<"h","i","r","e","d">>,
    <<"b","u","i","l","t"," ","t","e","a","m">> }

(* the regular-expression class \w *)
IsWordChar(c) ==
  \/ IsDigit(c)
  \/ c = "_"
  \/ \E i \in 1..Len(LowerChars) : LowerChars[i] = c \/ UpperChars[i] = c

(* /\b(led|managed|mentored|coached|hired|built team)\b/i.test(s) *)
hasLeadershipVerb(s) ==
  With(toLowerCase(s), LAMBDA lower :
    \E w \in LeadershipVerbs :
      \E i \in 0..(Len(lower) - Len(w)) :
        /\ SubSeq(lower, i + 1, i + Len(w)) = w
        /\ (i = 0 \/ ~IsWordChar(lower[i]))
        /\ (i + Len(w) = Len(lower) \/ ~IsWordChar(lower[i + Len(w) + 1])))

scoreAchievement(achievement, reqs) ==
  With2(With(toLowerCase(achievement.description), LAMBDA descLower :
          SelectSeq(reqs.keywords, LAMBDA k : includes(descLower, toLowerCase(k)))),
        [quantified |-> \/ (Has(achievement.quantifiable) /\ Get(achievement.quantifiable))
                        \/ hasNumber(achievement.description),
         team |-> /\ Has(achievement.category) /\ reqs.leadershipRequired
                  /\ Get(achievement.category) = "team",
         valued |-> /\ Has(achievement.category)
                    /\ Get(achievement.category) \in {"performance", "quality", "business"},
         leadership |-> reqs.leadershipRequired /\ hasLeadershipVerb(achievement.description),
         hasImpact |-> Has(achievement.impact) /\ Get(achievement.impact) # <<>>],
    LAMBDA matchedWords, is :
      With2(Hundredths(50)
            + Len(matchedWords) * Hundredths(10)
            + (IF is.quantified THEN Hundredths(20) ELSE 0)
            + (IF is.team THEN Hundredths(15) ELSE 0)
            + (IF is.valued THEN Hundredths(10) ELSE 0)
            + (IF is.leadership THEN Hundredths(15) ELSE 0)
            + (IF is.hasImpact THEN Hundredths(10) ELSE 0),
            (IF Len(matchedWords) > 0 THEN <<"Mentions">> ELSE <<>>)
            \o (IF is.quantified THEN <<"Quantified result">> ELSE <<>>)
            \o (IF is.team THEN <<"Team achievement">> ELSE <<>>)
            \o (IF is.valued THEN <<"category achievement">> ELSE <<>>)
            \o (IF is.leadership THEN <<"Leadership demonstrated">> ELSE <<>>)
            \o (IF is.hasImpact THEN <<"Has impact statement">> ELSE <<>>),
        LAMBDA score, reasons :
          [description |-> achievement.description,
           impact |-> achievement.impact,
           category |-> achievement.category,
           quantifiable |-> achievement.quantifiable,
           score |-> MathMin(ScoreOne, score),
           relevanceReason |->
             IF reasons = <<>> THEN <<"General achievement">> ELSE reasons]))

-----------------------------------------------------------------------------
(* selector.ts: projects and achievements *)

(* the comparator matrix of (a, b) => b.score - a.score *)
byScoreDescending(arr) ==
  [p \in (1..Len(arr)) \X (1..Len(arr)) |-> descendingSign(arr[p[1]].score, arr[p[2]].score)]

(* the count with its upper bound forgotten: Math.max(minToShow, relevant) *)
countWithoutMaximum(minToShow, relevant, maxToShow) ==
  MathMax(minToShow, relevant)

(* the count with its lower bound forgotten: Math.min(relevant, maxToShow) *)
countWithoutMinimum(minToShow, relevant, maxToShow) ==
  MathMin(relevant, maxToShow)

(* Math.min(Math.max(minToShow, relevant), maxToShow) *)
boundedCount(minToShow, relevant, maxToShow) ==
  MathMin(MathMax(minToShow, relevant), maxToShow)

(* sort by score descending, count the scores above 0.5, slice *)
topByScore(scored, minToShow, maxToShow) ==
  With(arraySort(scored, byScoreDescending(scored)), LAMBDA sorted :
    sliceFromStart(sorted,
      boundedCount(minToShow,
                   Len(SelectSeq(sorted, LAMBDA p : p.score > Hundredths(50))),
                   maxToShow)))

selectProjects(normalizedJobs, reqs, cfg) ==
  topByScore(
    flatten([i \in 1..Len(normalizedJobs) |->
      [k \in 1..Len(normalizedJobs[i].projects) |->
        scoreProject(normalizedJobs[i].projects[k], reqs)]]),
    cfg.minProjectsToShow, cfg.maxProjectsToShow)

selectAchievements(normalizedJobs, reqs, cfg) ==
  topByScore(
    flatten([i \in 1..Len(normalizedJobs) |->
      [k \in 1..Len(normalizedJobs[i].achievements) |->
        scoreAchievement(normalizedJobs[i].achievements[k], reqs)]]),
    cfg.minAchievementsToShow, cfg.maxAchievementsToShow)
-----------------------------------------------------------------------------
(* technology-matcher.ts: the skills inventory *)

getAllSkills(sk) ==
  flatten(sk.categories)

skillMatchesAny(skill, techs) ==
  \E i \in 1..Len(techs) :
    \/ techMatches(skill.name, techs[i])
    \/ /\ Has(skill.keywords)
       /\ \E k \in 1..Len(Get(skill.keywords)) : techMatches(Get(skill.keywords)[k], techs[i])

skillsOf(rows) ==
  [k \in 1..Len(rows) |-> rows[k].skill]

findMatchingSkills(sk, requiredTechs, preferredTechs) ==
  With(getAllSkills(sk), LAMBDA allSkills :
  With([i \in 1..Len(allSkills) |->
          [skill |-> allSkills[i],
           matchesRequired |-> skillMatchesAny(allSkills[i], requiredTechs),
           matchesPreferred |-> skillMatchesAny(allSkills[i], preferredTechs)]],
    LAMBDA rows :
      [required |-> skillsOf(SelectSeq(rows, LAMBDA r : r.matchesRequired)),
       preferred |-> skillsOf(SelectSeq(rows, LAMBDA r :
                       ~r.matchesRequired /\ r.matchesPreferred)),
       other |-> skillsOf(SelectSeq(rows, LAMBDA r :
                   ~r.matchesRequired /\ ~r.matchesPreferred))]))

isDeprecated(tech, sk) ==
  \E i \in 1..Len(sk.deprecated) : techMatches(sk.deprecated[i], tech)

isFeatured(tech, sk) ==
  \E i \in 1..Len(sk.featured) : techMatches(sk.featured[i], tech)

-----------------------------------------------------------------------------
(* selector.ts: skills *)

levelScore(level) ==
  CASE level = "expert" -> Hundredths(25)
    [] level = "advanced" -> Hundredths(15)
    [] level = "intermediate" -> Hundredths(10)
    [] level = "beginner" -> Hundredths(5)
    [] OTHER -> 0

(* the sum of the skill bonuses, returned without Math.min(1, score) *)
calculateSkillScoreUncapped(skill, sk, isRequired, isPreferred) ==
  With(currentYear - skill.lastUsed, LAMBDA yearsAgo :
      (IF isRequired THEN Hundredths(40)
       ELSE IF isPreferred THEN Hundredths(25) ELSE 0)
    + levelScore(skill.level)
    + (IF yearsAgo = 0 THEN Hundredths(15)
       ELSE IF yearsAgo <= 2 THEN Hundredths(10)
       ELSE IF yearsAgo <= 5 THEN Hundredths(5) ELSE 0)
    + (IF isFeatured(skill.name, sk) THEN Hundredths(10) ELSE 0)
    + (IF skill.wantToUse THEN Hundredths(5) ELSE 0)
    + (IF skill.yearsUsed >= 5 THEN Hundredths(10)
       ELSE IF skill.yearsUsed >= 3 THEN Hundredths(5) ELSE 0))

calculateSkillScore(skill, sk, isRequired, isPreferred) ==
  With(currentYear - skill.lastUsed, LAMBDA yearsAgo :
    MathMin(ScoreOne,
        (IF isRequired THEN Hundredths(40)
         ELSE IF isPreferred THEN Hundredths(25) ELSE 0)
      + levelScore(skill.level)
      + (IF yearsAgo = 0 THEN Hundredths(15)
         ELSE IF yearsAgo <= 2 THEN Hundredths(10)
         ELSE IF yearsAgo <= 5 THEN Hundredths(5) ELSE 0)
      + (IF isFeatured(skill.name, sk) THEN Hundredths(10) ELSE 0)
      + (IF skill.wantToUse THEN Hundredths(5) ELSE 0)
      + (IF skill.yearsUsed >= 5 THEN Hundredths(10)
         ELSE IF skill.yearsUsed >= 3 THEN Hundredths(5) ELSE 0)))

scoredSkill(skill, sk, isRequired, isPreferred) ==
  [name |-> skill.name,
   level |-> skill.level,
   yearsUsed |-> skill.yearsUsed,
   lastUsed |-> skill.lastUsed,
   wantToUse |-> skill.wantToUse,
   keywords |-> skill.keywords,
   score |-> calculateSkillScore(skill, sk, isRequired, isPreferred),
   isRequired |-> isRequired,
   isPreferred |-> isPreferred]

(* a comparator that orders skills by score alone *)
compareByScoreOnly(a, b) ==
  descendingSign(a.score, b.score)

(* the comparator of selectSkills: required first, then preferred, then score *)
compareSkills(a, b) ==
  IF a.isRequired /\ ~b.isRequired THEN -1
  ELSE IF ~a.isRequired /\ b.isRequired THEN 1
  ELSE IF a.isPreferred /\ ~b.isPreferred THEN -1
  ELSE IF ~a.isPreferred /\ b.isPreferred THEN 1
  ELSE descendingSign(a.score, b.score)

(* a filter that keeps featured, expert and want-to-use skills whether *)
(* deprecated or not                                                  *)
keepsOtherSkillDeprecatedToo(skill, sk) ==
  isFeatured(skill.name, sk) \/ skill.level = "expert" \/ skill.wantToUse

(* the other skills selectSkills keeps: not deprecated, and featured, *)
(* expert or want-to-use                                              *)
keepsOtherSkill(skill, sk) ==
  /\ ~isDeprecated(skill.name, sk)
  /\ (isFeatured(skill.name, sk) \/ skill.level = "expert" \/ skill.wantToUse)

(* the comparator matrix of compareSkills over a list of scored skills *)
bySkillOrder(arr) ==
  [p \in (1..Len(arr)) \X (1..Len(arr)) |-> compareSkills(arr[p[1]], arr[p[2]])]

scoreEach(list, sk, isRequired, isPreferred) ==
  [i \in 1..Len(list) |-> scoredSkill(list[i], sk, isRequired, isPreferred)]

selectSkills(sk, reqs, cfg) ==
  With(findMatchingSkills(sk, reqs.requiredTechnologies, reqs.preferredTechnologies),
    LAMBDA parts :
  With(   scoreEach(parts.required, sk, TRUE, FALSE)
       \o scoreEach(parts.preferred, sk, FALSE, TRUE)
       \o scoreEach(SelectSeq(parts.other, LAMBDA s : keepsOtherSkill(s, sk)),
                    sk, FALSE, FALSE),
    LAMBDA scoredSkills :
  With(arraySort(scoredSkills, bySkillOrder(scoredSkills)), LAMBDA sorted :
    sliceFromStart(sorted,
      boundedCount(cfg.minSkillsToShow,
                   Len(SelectSeq(sorted, LAMBDA s : s.isRequired \/ s.isPreferred)),
                   cfg.maxSkillsToShow)))))

-----------------------------------------------------------------------------
(* selector.ts: technology coverage and the summary *)

(* a coverage row in which only the last job of the list is looked at *)
coverageRowLastJob(tech, matchedSkills, normalizedJobs) ==
  With2(SelectSeq(matchedSkills, LAMBDA s : techMatches(s.name, tech)),
        SelectSeq(IF normalizedJobs = <<>> THEN <<>> ELSE <<normalizedJobs[Len(normalizedJobs)]>>, LAMBDA j :
          \E t \in 1..Len(j.technologies) : techMatches(j.technologies[t], tech)),
    LAMBDA skillHits, jobHits :
      IF skillHits # <<>>
      THEN [tech |-> tech, covered |-> TRUE,
            source |-> << <<"skill", skillHits[1].name>> >>]
      ELSE IF jobHits # <<>>
      THEN [tech |-> tech, covered |-> TRUE,
            source |-> << <<"job", jobHits[1].companyName>> >>]
      ELSE [tech |-> tech, covered |-> FALSE, source |-> <<>>])

(* one row of a coverage table: the first matching skill, else the first *)
(* job with a matching technology, else not covered                     *)
coverageRow(tech, matchedSkills, normalizedJobs) ==
  With2(SelectSeq(matchedSkills, LAMBDA s : techMatches(s.name, tech)),
        SelectSeq(normalizedJobs, LAMBDA j :
          \E t \in 1..Len(j.technologies) : techMatches(j.technologies[t], tech)),
    LAMBDA skillHits, jobHits :
      IF skillHits # <<>>
      THEN [tech |-> tech, covered |-> TRUE,
            source |-> << <<"skill", skillHits[1].name>> >>]
      ELSE IF jobHits # <<>>
      THEN [tech |-> tech, covered |-> TRUE,
            source |-> << <<"job", jobHits[1].companyName>> >>]
      ELSE [tech |-> tech, covered |-> FALSE, source |-> <<>>])

(* Math.round(((reqCovered / reqTotal) * 0.7 + (prefCovered / prefTotal) * 0.3) * 100): *)
(* round half up of (70*rc*pt + 30*pc*rt) / (rt*pt).  For lists of at most three        *)
(* technologies the double-precision result is this exact one.                          *)
roundedCoverage(reqCovered, reqTotal, prefCovered, prefTotal) ==
  With2(70 * reqCovered * prefTotal + 30 * prefCovered * reqTotal, reqTotal * prefTotal,
    LAMBDA num, den : (2 * num + den) \div (2 * den))

(* arr.filter(c => c.covered).length *)
coveredCount(rows) ==
  Len(SelectSeq(rows, LAMBDA c : c.covered))

(* arr.length || 1 *)
lengthOrOne(rows) ==
  IF Len(rows) # 0 THEN Len(rows) ELSE 1

analyzeTechnologyCoverage(sk, normalizedJobs, reqs) ==
  With(findMatchingSkills(sk, reqs.requiredTechnologies, reqs.preferredTechnologies),
    LAMBDA parts :
  With2([i \in 1..Len(reqs.requiredTechnologies) |->
          coverageRow(reqs.requiredTechnologies[i], parts.required, normalizedJobs)],
        [i \in 1..Len(reqs.preferredTechnologies) |->
          coverageRow(reqs.preferredTechnologies[i], parts.preferred, normalizedJobs)],
    LAMBDA requiredCoverage, preferredCoverage :
      [required |-> requiredCoverage,
       preferred |-> preferredCoverage,
       coveragePercent |->
         roundedCoverage(coveredCount(requiredCoverage), lengthOrOne(requiredCoverage),
                         coveredCount(preferredCoverage), lengthOrOne(preferredCoverage))]))

(* the elements of a sequence in order of first occurrence: new Set(...) *)
RECURSIVE distinctInOrder(_)
distinctInOrder(s) ==
  IF s = <<>> THEN <<>>
  ELSE With(distinctInOrder(SubSeq(s, 1, Len(s) - 1)), LAMBDA front :
         IF arrayIncludes(front, s[Len(s)]) THEN front ELSE Append(front, s[Len(s)]))

(* fit buckets that a coverage has to exceed, not reach *)
overallFitAboveThreshold(coveragePercent) ==
  IF coveragePercent > 85 THEN "excellent"
  ELSE IF coveragePercent > 70 THEN "good"
  ELSE IF coveragePercent > 50 THEN "moderate"
  ELSE "weak"

overallFit(coveragePercent) ==
  IF coveragePercent >= 85 THEN "excellent"
  ELSE IF coveragePercent >= 70 THEN "good"
  ELSE IF coveragePercent >= 50 THEN "moderate"
  ELSE "weak"

(* a collection of the technologies that every job misses *)
missingFromEveryJob(scoredJobs) ==
  IF scoredJobs = <<>> THEN <<>>
  ELSE SelectSeq(distinctInOrder(scoredJobs[1].missingTechnologies), LAMBDA t :
         \A i \in 1..Len(scoredJobs) : arrayIncludes(scoredJobs[i].missingTechnologies, t))

(* the set allMissing, in insertion order *)
allMissingOf(scoredJobs) ==
  distinctInOrder(flatten(
    [i \in 1..Len(scoredJobs) |-> scoredJobs[i].missingTechnologies]))

generateMatchSummary(coveragePercent, scoredJobs, reqs) ==
  With2(distinctInOrder(flatten(
          [i \in 1..Len(scoredJobs) |-> scoredJobs[i].matchedTechnologies])),
        allMissingOf(scoredJobs),
    LAMBDA allMatched, allMissing :
      With(overallFit(coveragePercent), LAMBDA fit :
        [overallFit |-> fit,
         strengths |->
              (IF Len(allMatched) >= 5 THEN <<"Strong technology match">> ELSE <<>>)
           \o (IF \E i \in 1..Len(scoredJobs) :
                    numLt((80 * TotalOne) \div 100, scoredJobs[i].totalScore)
               THEN <<"Highly relevant work experience">> ELSE <<>>)
           \o (IF reqs.leadershipRequired
               THEN <<"Leadership experience available">> ELSE <<>>),
         gaps |-> IF Len(allMissing) > 0
                  THEN << [missingTechnologies |-> sliceFromStart(allMissing, 3)] >>
                  ELSE <<>>,
         recommendations |->
              (IF coveragePercent < 70
               THEN <<"Highlight transferable skills and learning agility">> ELSE <<>>)
           \o (IF Len(allMissing) > 3
               THEN <<"Consider addressing gaps in cover letter">> ELSE <<>>)
           \o (IF fit = "excellent"
               THEN <<"Strong fit - emphasize achievements and impact">> ELSE <<>>)]))
-----------------------------------------------------------------------------
(* normalizer.ts.  A raw job carries typeofCompany, the result of typeof   *)
(* job.company, next to the fields of its format.                          *)

isEnhancedJob(job) ==
  job.typeofCompany = "object"

isBasicJob(job) ==
  job.typeofCompany = "string"

(* /^\d{4}-\d{2}/.test(s) *)
startsWithYearMonth(s) ==
  /\ Len(s) >= 7
  /\ \A i \in {1, 2, 3, 4, 6, 7} : IsDigit(s[i])
  /\ s[5] = "-"

(* s.split(/\s+/) *)
RECURSIVE splitWhitespace(_)
splitWhitespace(s) ==
  With(SelectSeq([i \in 1..Len(s) |-> i], LAMBDA i : s[i] \in WhitespaceChars),
    LAMBDA wsAt :
      IF wsAt = <<>> THEN <<s>>
      ELSE <<SubSeq(s, 1, wsAt[1] - 1)>>
           \o splitWhitespace(trimStart(SubSeq(s, wsAt[1], Len(s)))))

MonthNumbers ==
  { << <<"j","a","n","u","a","r","y">>, <<"0","1">> >>,
    << <<"f","e","b","r","u","a","r","y">>, <<"0","2">> >>,
    << <<"m","a","r","c","h">>, <<"0","3">> >>,
    << <<"a","p","r","i","l">>, <<"0","4">> >>,
    << <<"m","a","y">>, <<"0","5">> >>,
    << <<"j","u","n","e">>, <<"0","6">> >>,
    << <<"j","u","l","y">>, <<"0","7">> >>,
    << <<"a","u","g","u","s","t">>, <<"0","8">> >>,
    << <<"s","e","p","t","e","m","b","e","r">>, <<"0","9">> >>,
    << <<"o","c","t","o","b","e","r">>, <<"1","0">> >>,
    << <<"n","o","v","e","m","b","e","r">>, <<"1","1">> >>,
    << <<"d","e","c","e","m","b","e","r">>, <<"1","2">> >>,
    << <<"j","a","n">>, <<"0","1">> >>,
    << <<"f","e","b">>, <<"0","2">> >>,
    << <<"m","a","r">>, <<"0","3">> >>,
    << <<"a","p","r">>, <<"0","4">> >>,
    << <<"j","u","n">>, <<"0","6">> >>,
    << <<"j","u","l">>, <<"0","7">> >>,
    << <<"a","u","g">>, <<"0","8">> >>,
    << <<"s","e","p">>, <<"0","9">> >>,
    << <<"o","c","t">>, <<"1","0">> >>,
    << <<"n","o","v">>, <<"1","1">> >>,
    << <<"d","e","c">>, <<"1","2">> >> }

(* the positions where four digits in a row start: s.match(/\d{4}/) *)
fourDigitStarts(s) ==
  SelectSeq([i \in 1..(IF Len(s) >= 3 THEN Len(s) - 3 ELSE 0) |-> i],
            LAMBDA i : \A k \in 0..3 : IsDigit(s[i + k]))

(* the month table entry of a lower-cased month name, if any *)
monthOf(name) ==
  {m \in MonthNumbers : m[1] = name}

normalizeDate(dateStr) ==
  IF dateStr = <<>> THEN <<>>
  ELSE IF startsWithYearMonth(dateStr) THEN SubSeq(dateStr, 1, 7)
  ELSE
    With2(splitWhitespace(toLowerCase(dateStr)), fourDigitStarts(dateStr),
      LAMBDA parts, starts :
        IF /\ Len(parts) = 2
           /\ monthOf(parts[1]) # {}
           /\ Len(parts[2]) = 4
           /\ \A i \in 1..4 : IsDigit(parts[2][i])
        THEN parts[2] \o <<"-">> \o (CHOOSE m \in monthOf(parts[1]) : TRUE)[2]
        ELSE IF starts # <<>>
        THEN SubSeq(dateStr, starts[1], starts[1] + 3) \o <<"-","0","1">>
        ELSE dateStr)

(* str.split('-') *)
RECURSIVE splitDash(_)
splitDash(s) ==
  With(SelectSeq([i \in 1..Len(s) |-> i], LAMBDA i : s[i] = "-"), LAMBDA dashAt :
    IF dashAt = <<>> THEN <<s>>
    ELSE <<SubSeq(s, 1, dashAt[1] - 1)>> \o splitDash(SubSeq(s, dashAt[1] + 1, Len(s))))

(* Number(s) of a piece between dashes: 0 for an empty or blank piece, the *)
(* value of a run of digits, NaN for anything else                        *)
toNumber(s) ==
  With(trim(s), LAMBDA t :
    IF t = <<>> THEN 0
    ELSE IF \A i \in 1..Len(t) : IsDigit(t[i]) THEN digitsValue(t)
    ELSE NaN)

(* the days of the month numbered m, months counted from January of year 0 *)
daysInMonth(m) ==
  With2(m \div 12, m % 12, LAMBDA year, monthIndex :
    IF monthIndex = 1
    THEN (IF year % 4 = 0 /\ (year % 100 # 0 \/ year % 400 = 0) THEN 29 ELSE 28)
    ELSE IF monthIndex \in {3, 5, 8, 10} THEN 30
    ELSE 31)

(* the month a day number outside its month falls in *)
RECURSIVE carryDays(_, _)
carryDays(m, day) ==
  IF day < 1 THEN carryDays(m - 1, day + daysInMonth(m - 1))
  ELSE IF day > daysInMonth(m) THEN carryDays(m + 1, day - daysInMonth(m))
  ELSE m

(* new Date(year, monthIndex, day), kept as 12 * getFullYear() + getMonth(); *)
(* NaN for the Invalid Date, whose getFullYear() and getMonth() are NaN;     *)
(* the years 0 to 99 stand for 1900 to 1999                                  *)
newDate(year, monthIndex, day) ==
  IF IsNaN(year) \/ IsNaN(monthIndex) \/ IsNaN(day) THEN NaN
  ELSE carryDays(12 * (IF year \in 0..99 THEN 1900 + year ELSE year) + monthIndex, day)

parseDateOf(dateStr) ==
  With(splitDash(normalizeDate(dateStr)), LAMBDA pieces :
    With([i \in 1..Len(pieces) |-> toNumber(pieces[i])], LAMBDA parts :
      newDate(parts[1],
              numSub(IF Len(parts) >= 2 THEN parts[2] ELSE 1, 1),
              IF Len(parts) >= 3 THEN parts[3] ELSE 1)))

(* the date strings of the job files below, parsed once *)
KnownDates ==
  { <<>>, <<"P","r","e","s","e","n","t">>, <<"M","a","y"," ","2","0","1","7">>,
    <<"2","0","1","9">> }
  \cup { <<"2","0", DigitChars[(y \div 10) + 1], DigitChars[(y % 10) + 1], "-","0","6">> :
           y \in 10..27 }

ParsedDates ==
  [d \in KnownDates |-> parseDateOf(d)]

parseDate(dateStr) ==
  IF dateStr \in KnownDates THEN ParsedDates[dateStr] ELSE parseDateOf(dateStr)

(* the month the clock shows, as getMonth() gives it *)
ClockMonth ==
  10

(* end is the optional end date; new Date() is the clock's month *)
calculateMonths(start, end) ==
  With2(parseDate(start),
        IF Has(end) /\ Get(end) # <<>> THEN parseDate(Get(end))
        ELSE 12 * currentYear + ClockMonth,
    LAMBDA startDate, endDate : MathMax(1, numSub(endDate, startDate)))

(* new Set(...) over the categorized technology lists, then the projects' *)
collectTechnologies(job) ==
  distinctInOrder(
       flatten(OrElse(job.technologies, <<>>))
    \o (IF Has(job.projects)
        THEN flatten([i \in 1..Len(Get(job.projects)) |->
               OrElse(Get(job.projects)[i].technologies, <<>>)])
        ELSE <<>>))

normalizeAchievements(achievements) ==
  IF ~Has(achievements) THEN <<>>
  ELSE [i \in 1..Len(Get(achievements)) |->
         [Get(achievements)[i] EXCEPT
            !.quantifiable = IF Has(@) THEN @
                             ELSE <<hasNumber(Get(achievements)[i].description)>>]]

collectResponsibilities(resp) ==
  IF ~Has(resp) THEN <<>> ELSE flatten(Get(resp))

normalizeEnhancedJob(job) ==
  [companyName |-> job.company.name,
   companyInfo |-> <<job.company>>,
   title |-> job.role.title,
   level |-> job.role.level,
   startDate |-> job.duration.start,
   endDate |-> job.duration.end,
   durationMonths |->
     IF Has(job.duration.totalMonths) THEN Get(job.duration.totalMonths)
     ELSE calculateMonths(job.duration.start, job.duration.end),
   technologies |-> collectTechnologies(job),
   projects |-> OrElse(job.projects, <<>>),
   achievements |-> normalizeAchievements(job.achievements),
   responsibilities |-> collectResponsibilities(job.responsibilities),
   relevanceWeights |-> job.relevanceWeights,
   keywords |-> job.keywords]

normalizeBasicJob(job) ==
  With2(IF Has(job.startDate) THEN Get(job.startDate)
        ELSE IF Has(job.duration) THEN Get(job.duration).start ELSE <<>>,
        IF Has(job.endDate) THEN job.endDate
        ELSE IF Has(job.duration) THEN Get(job.duration).end ELSE <<>>,
    LAMBDA startDate, endDate :
      [companyName |-> job.company,
       companyInfo |-> <<>>,
       title |-> job.position,
       level |-> <<>>,
       startDate |-> normalizeDate(startDate),
       endDate |-> IF Has(endDate) /\ Get(endDate) # <<>>
                   THEN <<normalizeDate(Get(endDate))>> ELSE <<>>,
       durationMonths |-> calculateMonths(startDate, endDate),
       technologies |-> OrElse(job.technologies, <<>>),
       projects |-> <<>>,
       achievements |->
         [i \in 1..Len(OrElse(job.achievements, <<>>)) |->
            [description |-> Get(job.achievements)[i],
             impact |-> <<>>,
             category |-> <<>>,
             quantifiable |-> <<hasNumber(Get(job.achievements)[i])>>]],
       responsibilities |-> OrElse(job.description, <<>>),
       relevanceWeights |-> <<>>,
       keywords |-> <<>>])

(* the value null: typeof null is 'object', and reading a property of it *)
(* throws a TypeError                                                    *)
JsNull ==
  [null |-> TRUE]

(* what normalizeEnhancedJob reads a property of: job.company.name, *)
(* job.role.title, job.duration.start                               *)
readsPropertyOfNothing(job) ==
  \/ job.company = JsNull
  \/ "role" \notin DOMAIN job
  \/ "duration" \notin DOMAIN job

(* the error normalizeJob ends with: a TypeError out of normalizeEnhancedJob, *)
(* 'Unknown job format' for a company that is neither object nor string      *)
normalizeJobError(job) ==
  IF isEnhancedJob(job)
  THEN IF readsPropertyOfNothing(job) THEN "TypeError" ELSE "none"
  ELSE IF isBasicJob(job) THEN "none"
  ELSE "Unknown job format"

normalizeJobThrows(job) ==
  normalizeJobError(job) # "none"

normalizeJob(job) ==
  IF isEnhancedJob(job) THEN normalizeEnhancedJob(job) ELSE normalizeBasicJob(job)

-----------------------------------------------------------------------------
(* index.ts: matchAgainstRequirements *)

(* { ...DEFAULT_MATCH_CONFIG, ...options.config }: a shallow merge *)
mergeConfig(defaults, override) ==
  [f \in DOMAIN defaults |-> IF f \in DOMAIN override THEN override[f] ELSE defaults[f]]

(* the comparator matrix of (a, b) => b.score.totalScore - a.score.totalScore *)
byTotalScoreDescending(arr) ==
  [p \in (1..Len(arr)) \X (1..Len(arr)) |->
     descendingSign(arr[p[1]].score.totalScore, arr[p[2]].score.totalScore)]

(* options.minJobScore ? scoredJobs.filter(...) : scoredJobs *)
filterByMinScore(scoredJobs, minJobScore) ==
  IF Has(minJobScore) /\ Get(minJobScore) # 0 /\ ~IsNaN(Get(minJobScore))
  THEN SelectSeq(scoredJobs, LAMBDA j : numLe(Get(minJobScore), j.score.totalScore))
  ELSE scoredJobs

(* jobs.map(normalizeJob) ends with the error of the first job that throws *)
firstNormalizeError(rawJobs) ==
  normalizeJobError(SelectSeq(rawJobs, normalizeJobThrows)[1])

(* the body of matchAgainstRequirements, given what the module-level *)
(* default configuration holds when the call starts                  *)
matchWithDefaults(defaults, rawJobs, sk, reqs, opts) ==
  IF \E i \in 1..Len(rawJobs) : normalizeJobThrows(rawJobs[i])
  THEN [threw |-> TRUE, error |-> firstNormalizeError(rawJobs)]
  ELSE
    With2(mergeConfig(defaults, opts.config),
          [i \in 1..Len(rawJobs) |-> normalizeJob(rawJobs[i])],
      LAMBDA cfg, normalizedJobs :
    With([i \in 1..Len(normalizedJobs) |->
            [job |-> normalizedJobs[i],
             score |-> scoreJob(normalizedJobs[i], reqs, cfg)]],
      LAMBDA scored :
    With(filterByMinScore(arraySort(scored, byTotalScoreDescending(scored)),
                          opts.minJobScore),
      LAMBDA filteredJobs :
    With2([i \in 1..Len(filteredJobs) |-> filteredJobs[i].score],
          [i \in 1..Len(filteredJobs) |-> filteredJobs[i].job],
      LAMBDA rankedJobs, relevantNormalizedJobs :
    With(analyzeTechnologyCoverage(sk, normalizedJobs, reqs),
      LAMBDA technologyCoverage :
        [threw |-> FALSE,
         requirements |-> reqs,
         rankedJobs |-> rankedJobs,
         selectedProjects |-> selectProjects(relevantNormalizedJobs, reqs, cfg),
         selectedAchievements |-> selectAchievements(relevantNormalizedJobs, reqs, cfg),
         selectedSkills |-> selectSkills(sk, reqs, cfg),
         technologyCoverage |-> technologyCoverage,
         summary |-> generateMatchSummary(technologyCoverage.coveragePercent,
                                          rankedJobs, reqs)])))))

matchAgainstRequirements(rawJobs, sk, reqs, opts) ==
  matchWithDefaults(defaultMatchConfig, rawJobs, sk, reqs, opts)


-----------------------------------------------------------------------------
(* index.ts: quickMatch, meetsMinimumRequirements *)

(* the comparator matrix of (a, b) => b.totalScore - a.totalScore *)
byJobScoreDescending(arr) ==
  [p \in (1..Len(arr)) \X (1..Len(arr)) |->
     descendingSign(arr[p[1]].totalScore, arr[p[2]].totalScore)]

(* the scores of jobs that normalize, sorted *)
rankScores(rawJobs, reqs, cfg) ==
  With([i \in 1..Len(rawJobs) |-> scoreJob(normalizeJob(rawJobs[i]), reqs, cfg)],
    LAMBDA scores : arraySort(scores, byJobScoreDescending(scores)))

(* a quickMatch that leaves out the jobs it cannot normalize *)
quickMatchSkippingUnknown(rawJobs, reqs, cfg) ==
  [threw |-> FALSE,
   out |-> rankScores(SelectSeq(rawJobs, LAMBDA j : ~normalizeJobThrows(j)), reqs, cfg)]

quickMatch(rawJobs, reqs, cfg) ==
  IF \E i \in 1..Len(rawJobs) : normalizeJobThrows(rawJobs[i])
  THEN [threw |-> TRUE, error |-> firstNormalizeError(rawJobs)]
  ELSE [threw |-> FALSE, out |-> rankScores(rawJobs, reqs, cfg)]

getAllTechnologies(normalizedJobs) ==
  distinctInOrder(flatten([i \in 1..Len(normalizedJobs) |-> normalizedJobs[i].technologies]))

(* t.toLowerCase().includes(reqTech.toLowerCase()) or the other way round *)
containsEitherWay(t, reqTech) ==
  With2(toLowerCase(t), toLowerCase(reqTech), LAMBDA a, b :
    includes(a, b) \/ includes(b, a))

(* Math.round((coveredCount / length) * 100), 100 for an empty list *)
requiredPercent(covered, length) ==
  IF length > 0 THEN (200 * covered + length) \div (2 * length) ELSE 100

meetsMinimumRequirements(rawJobs, reqs, minCoveragePercent) ==
  IF \E i \in 1..Len(rawJobs) : normalizeJobThrows(rawJobs[i])
  THEN [threw |-> TRUE, error |-> firstNormalizeError(rawJobs)]
  ELSE
    With(getAllTechnologies([i \in 1..Len(rawJobs) |-> normalizeJob(rawJobs[i])]),
      LAMBDA allTechs :
    With(SelectSeq(reqs.requiredTechnologies, LAMBDA reqTech :
           ~\E k \in 1..Len(allTechs) : containsEitherWay(allTechs[k], reqTech)),
      LAMBDA gaps :
    With(requiredPercent(Len(reqs.requiredTechnologies) - Len(gaps),
                         Len(reqs.requiredTechnologies)),
      LAMBDA coveragePercent :
        [threw |-> FALSE,
         meets |-> coveragePercent >= minCoveragePercent,
         coveragePercent |-> coveragePercent,
         gaps |-> gaps])))
-----------------------------------------------------------------------------
(* The inputs the operations are run on: bounded sets of raw jobs           *)
(* (types/job.ts), skills inventories (types/profile.ts), requirements      *)
(* (types/analyzer.ts) and options.                                          *)

(* the year y as the date string "y-06" *)
YearMonth(y) ==
  << DigitChars[((y \div 1000) % 10) + 1], DigitChars[((y \div 100) % 10) + 1],
     DigitChars[((y \div 10) % 10) + 1], DigitChars[(y % 10) + 1], "-", "0", "6" >>

Present == <<"P","r","e","s","e","n","t">>

(* the year the clock shows *)
ClockYear ==
  2000 + 26

NoWeights ==
  [mobile |-> <<>>, leadership |-> <<>>, startup |-> <<>>, enterprise |-> <<>>]

BasicJob(company, startDate, endDate, technologies, achievements) ==
  [typeofCompany |-> "string",
   company |-> company,
   position |-> <<"D","e","v","e","l","o","p","e","r">>,
   startDate |-> <<startDate>>,
   endDate |-> endDate,
   duration |-> <<>>,
   technologies |-> <<technologies>>,
   achievements |-> <<achievements>>,
   description |-> <<>>]

EnhancedJob(name, industry, level, start, end, technologies, projects, achievements, relevanceWeights, keywords) ==
  [typeofCompany |-> "object",
   company |-> [name |-> name, industry |-> industry],
   role |-> [title |-> <<"E","n","g","i","n","e","e","r">>, level |-> level],
   duration |-> [start |-> start, end |-> end, totalMonths |-> <<>>],
   technologies |-> <<technologies>>,
   projects |-> <<projects>>,
   achievements |-> <<achievements>>,
   responsibilities |-> <<>>,
   relevanceWeights |-> relevanceWeights,
   keywords |-> keywords]

(* a job record whose company field is neither a string nor an object *)
UnknownJob ==
  [typeofCompany |-> "number"]

Project(name, technologies, impact, teamSize) ==
  [name |-> name, technologies |-> technologies, impact |-> impact, teamSize |-> teamSize]

Achievement(description, impact, category, quantifiable) ==
  [description |-> description, impact |-> impact, category |-> category,
   quantifiable |-> quantifiable]

Skill(name, level, yearsUsed, lastUsed, wantToUse, keywords) ==
  [name |-> name, level |-> level, yearsUsed |-> yearsUsed, lastUsed |-> lastUsed,
   wantToUse |-> wantToUse, keywords |-> keywords]

Requirements(seniority, companyType, domain, required, preferred, leadershipRequired, keywords, buzzwords) ==
  [seniority |-> seniority, companyType |-> companyType, domain |-> domain,
   requiredTechnologies |-> required, preferredTechnologies |-> preferred,
   leadershipRequired |-> leadershipRequired, keywords |-> keywords,
   buzzwords |-> buzzwords]

ProjectApp ==
  Project(<<"A","p","p">>, << <<Swift, UIKit>> >>,
          << <<"c","u","t"," ","c","r","a","s","h","e","s"," ","4","0","%">> >>, <<5>>)

ProjectApi ==
  Project(<<"A","p","i">>, << <<NodeName>> >>, <<>>, <<>>)

ProjectSite ==
  Project(<<"S","i","t","e">>, <<>>, <<>>, <<1>>)

AchievementLed ==
  Achievement(<<"L","e","d"," ","t","e","a","m"," ","o","f"," ","5">>,
              << <<"f","a","s","t","e","r">> >>, <<"team">>, <<>>)

AchievementPlain ==
  Achievement(<<"S","h","i","p","p","e","d"," ","a","p","p">>, <<>>, <<>>, <<>>)

AcmeJob ==
  BasicJob(<<"A","c","m","e">>, YearMonth(ClockYear - 3), <<>>, <<Swift>>,
           << <<"R","e","d","u","c","e","d"," ","c","r","a","s","h","e","s"," ","4","0","%">> >>)

(* a basic job that is still held: its end date is the word Present *)
BetaJob ==
  BasicJob(<<"B","e","t","a">>, YearMonth(ClockYear - 5), <<Present>>, <<NodeName>>, <<>>)

CoreJob ==
  EnhancedJob(<<"C","o","r","e">>, << <<"F","i","n","T","e","c","h">> >>, <<"senior">>,
              YearMonth(ClockYear - 9), <<YearMonth(ClockYear - 6)>>,
              << <<Swift>>, <<ReactName, Swift>> >>,
              <<ProjectApp, ProjectSite>>, <<AchievementLed, AchievementPlain>>,
              <<[NoWeights EXCEPT !.mobile = <<ScoreOne>>, !.leadership = <<ScoreOne \div 2>>]>>,
              <<[domains |-> << << <<"F","i","n","t","e","c","h">> >> >>]>>)

DeltaJob ==
  EnhancedJob(<<"D","e","l","t","a">>, <<>>, <<>>,
              YearMonth(ClockYear - 2), <<>>,
              << <<Elixir>> >>, <<ProjectApi>>, <<>>, <<>>, <<>>)

(* enhanced job files with company: null, without role, without duration *)
NullCompanyJob ==
  [CoreJob EXCEPT !.company = JsNull]

NoRoleJob ==
  [f \in (DOMAIN CoreJob) \ {"role"} |-> CoreJob[f]]

NoDurationJob ==
  [f \in (DOMAIN DeltaJob) \ {"duration"} |-> DeltaJob[f]]

(* a job file without company field *)
NoCompanyJob ==
  [typeofCompany |-> "undefined"]

(* an enhanced job file that states duration.totalMonths *)
TimedJob ==
  [CoreJob EXCEPT !.duration.totalMonths = <<30>>]

MayDate ==
  <<"M","a","y"," ","2","0","1","7">>

YearOnly ==
  <<"2","0","1","9">>

(* the job files normalizeJob is run on *)
RawJobPool ==
  { BasicJob(<<"A","c","m","e">>, startDate, endDate, technologies, <<>>) :
      startDate \in {YearMonth(ClockYear - 5), MayDate, YearOnly, <<>>, Present},
      endDate \in {<<>>, <<Present>>, <<<<>>>>, <<MayDate>>, <<YearMonth(ClockYear - 1)>>},
      technologies \in {<<>>, <<Swift, NodeName>>, <<Swift, NodeName, Swift>>} }
  \cup {AcmeJob, BetaJob, CoreJob, DeltaJob, TimedJob}
  \cup {NullCompanyJob, NoRoleJob, NoDurationJob, UnknownJob, NoCompanyJob}

JobPool ==
  {AcmeJob, BetaJob, CoreJob, DeltaJob, UnknownJob}

(* the job histories the selectors are run on *)
JobListPool ==
  {<<>>, <<CoreJob>>, <<CoreJob, DeltaJob>>, <<AcmeJob, CoreJob>>, <<DeltaJob, AcmeJob, CoreJob>>}

SwiftSkill ==
  Skill(Swift, "expert", 6, ClockYear, TRUE, <<>>)

BackendSkill ==
  Skill(Backend, "advanced", 3, ClockYear - 1, FALSE, << <<NodeDotJs>> >>)

CobolSkill ==
  Skill(Cobol, "beginner", 1, ClockYear - 8, FALSE, <<>>)

EmptyInventory ==
  [categories |-> <<>>, featured |-> <<>>, deprecated |-> <<>>]

FullInventory ==
  [categories |-> << <<SwiftSkill>>, <<BackendSkill, CobolSkill>> >>,
   featured |-> <<Swift>>, deprecated |-> <<Cobol>>]

PlainInventory ==
  [categories |-> << <<CobolSkill, BackendSkill>> >>,
   featured |-> <<>>, deprecated |-> <<>>]

(* an inventory whose deprecated list names a featured expert skill and *)
(* a skill with a keyword                                              *)
LegacySkill ==
  Skill(Cobol, "expert", 9, ClockYear - 1, TRUE, <<>>)

LegacyInventory ==
  [categories |-> << <<LegacySkill, BackendSkill>>, <<SwiftSkill>> >>,
   featured |-> <<Cobol, Swift>>, deprecated |-> <<Cobol, Backend>>]

SkillsPool ==
  {EmptyInventory, FullInventory, PlainInventory}

(* the requirements a matching session is run against *)
RequirementsPool ==
  { Requirements("senior", <<>>, <<FINTECH>>, req, pref, FALSE, <<>>, <<>>) :
      req \in {<<>>, <<Swift>>, <<Swift, NodeDotJs>>},
      pref \in {<<>>, <<ReactName, Cobol>>} }

(* the requirements the scorers are run against *)
ScoringRequirementsPool ==
  { Requirements(seniority, companyType, dom, req, pref, lead, keywords, <<>>) :
      seniority \in {"mid", "lead"},
      companyType \in {<<>>, <<"startup">>},
      dom \in {<<>>, <<FINTECH>>},
      req \in {<<>>, <<Swift, UIKit>>},
      pref \in {<<>>, <<ReactName>>},
      lead \in BOOLEAN,
      keywords \in {<<>>, <<Crashes, TeamWord>>} }

(* the requirements the selectors are run against *)
SelectionRequirementsPool ==
  { Requirements("senior", <<>>, <<>>, req, pref, FALSE, keywords, <<>>) :
      req \in {<<>>, <<Swift>>, <<Cobol>>, <<Swift, NodeDotJs>>},
      pref \in {<<>>, <<ReactName>>, <<Swift>>},
      keywords \in {<<>>, <<Crashes>>} }

(* options.config undefined: nothing is spread over the defaults *)
NoOverride ==
  [f \in {} |-> 0]

NoOptions ==
  [config |-> NoOverride, minJobScore |-> <<>>]

(* MatchOptions: no option, a minimum job score of 0.6, a config override *)
(* together with a minimum job score of 0                                *)
OptionsPool ==
  { NoOptions,
    [config |-> NoOverride, minJobScore |-> <<(60 * TotalOne) \div 100>>],
    [config |-> [maxProjectsToShow |-> 1], minJobScore |-> <<0>>] }

NoResult ==
  [op |-> "none"]

(* no generateWithRetry call is in progress *)
NoRetry ==
  [pc |-> "none"]
-----------------------------------------------------------------------------
(* The matching session: the caller's job history grows, and               *)
(* matchAgainstRequirements is called on it with any options.              *)

MaxJobs ==
  3

Init ==
  /\ currentYear = ClockYear
  /\ retry = NoRetry
  /\ defaultMatchConfig = DEFAULT_MATCH_CONFIG
  /\ jobs = <<>>
  /\ skills \in {EmptyInventory, FullInventory}
  /\ requirements \in RequirementsPool
  /\ config = DEFAULT_MATCH_CONFIG
  /\ options = NoOptions
  /\ result = NoResult

AppendJob(job) ==
  /\ Len(jobs) < MaxJobs
  /\ jobs' = Append(jobs, job)
  /\ result' = NoResult
  /\ UNCHANGED <<retry, currentYear, defaultMatchConfig, skills, requirements, config, options>>

(* a call that spreads options.config into the shared DEFAULT_MATCH_CONFIG *)
(* object instead of into a fresh one                                      *)
MatchSharingDefaults(opts) ==
  /\ options' = opts
  /\ defaultMatchConfig' = mergeConfig(defaultMatchConfig, opts.config)
  /\ result' = [op |-> "match",
                out |-> matchWithDefaults(defaultMatchConfig', jobs, skills, requirements,
                                          [opts EXCEPT !.config = NoOverride])]
  /\ UNCHANGED <<retry, currentYear, jobs, skills, requirements, config>>

(* a call that sorts the caller's job list by score, where the code sorts *)
(* the list of scored jobs it has built itself                           *)
MatchSortingJobs(opts) ==
  /\ options' = opts
  /\ jobs' = IF \E i \in 1..Len(jobs) : normalizeJobThrows(jobs[i]) THEN jobs
             ELSE arraySort(jobs, byTotalScoreDescending(
                    [i \in 1..Len(jobs) |->
                      [score |-> scoreJob(normalizeJob(jobs[i]), requirements,
                                          mergeConfig(defaultMatchConfig, opts.config))]]))
  /\ result' = [op |-> "match",
                out |-> matchAgainstRequirements(jobs, skills, requirements, opts)]
  /\ UNCHANGED <<retry, currentYear, defaultMatchConfig, skills, requirements, config>>

Match(opts) ==
  /\ options' = opts
  /\ result' = [op |-> "match",
                out |-> matchAgainstRequirements(jobs, skills, requirements, opts)]
  /\ UNCHANGED <<retry, currentYear, defaultMatchConfig, jobs, skills, requirements, config>>

Next ==
  \/ \E job \in JobPool : AppendJob(job)
  \/ \E opts \in OptionsPool : Match(opts)

Spec ==
  Init /\ [][Next]_vars

Matched ==
  result.op = "match" /\ ~result.out.threw

-----------------------------------------------------------------------------
(* The scorers, each called on one job, project, achievement or skill *)

InitScore ==
  /\ currentYear = ClockYear
  /\ retry = NoRetry
  /\ defaultMatchConfig = DEFAULT_MATCH_CONFIG
  /\ jobs \in {<<job>> : job \in JobPool \ {UnknownJob}}
  /\ skills \in {FullInventory, PlainInventory}
  /\ requirements \in ScoringRequirementsPool
  /\ config = DEFAULT_MATCH_CONFIG
  /\ options = NoOptions
  /\ result = NoResult

ScoreJob ==
  /\ result' = [op |-> "scoreJob", job |-> normalizeJob(jobs[1]),
                out |-> scoreJob(normalizeJob(jobs[1]), requirements, config)]
  /\ UNCHANGED <<retry, currentYear, defaultMatchConfig, jobs, skills, requirements, config, options>>

ScoreProject(k) ==
  /\ k \in 1..Len(normalizeJob(jobs[1]).projects)
  /\ result' = [op |-> "scoreProject",
                out |-> scoreProject(normalizeJob(jobs[1]).projects[k], requirements)]
  /\ UNCHANGED <<retry, currentYear, defaultMatchConfig, jobs, skills, requirements, config, options>>

ScoreAchievement(k) ==
  /\ k \in 1..Len(normalizeJob(jobs[1]).achievements)
  /\ result' = [op |-> "scoreAchievement",
                out |-> scoreAchievement(normalizeJob(jobs[1]).achievements[k], requirements)]
  /\ UNCHANGED <<retry, currentYear, defaultMatchConfig, jobs, skills, requirements, config, options>>

CalculateSkillScore(k, isRequired, isPreferred) ==
  /\ k \in 1..Len(getAllSkills(skills))
  /\ result' = [op |-> "calculateSkillScore",
                skill |-> getAllSkills(skills)[k],
                isRequired |-> isRequired,
                out |-> calculateSkillScore(getAllSkills(skills)[k], skills,
                                            isRequired, isPreferred)]
  /\ UNCHANGED <<retry, currentYear, defaultMatchConfig, jobs, skills, requirements, config, options>>

MaxItems ==
  3

NextScore ==
  \/ ScoreJob
  \/ \E k \in 1..MaxItems : ScoreProject(k)
  \/ \E k \in 1..MaxItems : ScoreAchievement(k)
  \/ \E k \in 1..MaxItems, isRequired \in BOOLEAN, isPreferred \in BOOLEAN :
       CalculateSkillScore(k, isRequired, isPreferred)

SpecScore ==
  InitScore /\ [][NextScore]_vars

-----------------------------------------------------------------------------
(* The selectors, each called on a job history or a skills inventory under *)
(* a configuration with any bounds                                         *)

MaxShow ==
  3

ConfigPool ==
  { [DEFAULT_MATCH_CONFIG EXCEPT
       !.minProjectsToShow = lo, !.maxProjectsToShow = hi,
       !.minAchievementsToShow = lo, !.maxAchievementsToShow = hi,
       !.minSkillsToShow = lo, !.maxSkillsToShow = hi] :
      lo \in 0..MaxShow, hi \in 0..MaxShow }

InitSelect ==
  /\ currentYear = ClockYear
  /\ retry = NoRetry
  /\ defaultMatchConfig = DEFAULT_MATCH_CONFIG
  /\ jobs \in JobListPool
  /\ skills \in SkillsPool \cup {LegacyInventory}
  /\ requirements \in SelectionRequirementsPool
  /\ config \in ConfigPool
  /\ options = NoOptions
  /\ result = NoResult

normalizedJobsOf(rawJobs) ==
  [i \in 1..Len(rawJobs) |-> normalizeJob(rawJobs[i])]

SelectProjects ==
  /\ result' = [op |-> "selectProjects",
                out |-> selectProjects(normalizedJobsOf(jobs), requirements, config)]
  /\ UNCHANGED <<retry, currentYear, defaultMatchConfig, jobs, skills, requirements, config, options>>

SelectAchievements ==
  /\ result' = [op |-> "selectAchievements",
                out |-> selectAchievements(normalizedJobsOf(jobs), requirements, config)]
  /\ UNCHANGED <<retry, currentYear, defaultMatchConfig, jobs, skills, requirements, config, options>>

SelectSkills ==
  /\ result' = [op |-> "selectSkills",
                out |-> selectSkills(skills, requirements, config)]
  /\ UNCHANGED <<retry, currentYear, defaultMatchConfig, jobs, skills, requirements, config, options>>

NextSelect ==
  \/ SelectProjects
  \/ SelectAchievements
  \/ SelectSkills

SpecSelect ==
  InitSelect /\ [][NextSelect]_vars

-----------------------------------------------------------------------------
(* The technology matcher, called on the technologies of one job (the      *)
(* candidates) and the required technologies of one posting                *)

toUpperCase(s) ==
  [i \in 1..Len(s) |-> toUpperChar(s[i])]

CanonicalNames ==
  {TECH_ALIASES[i].canonical : i \in 1..Len(TECH_ALIASES)}

(* every alias of the table, paired with the canonical name it is listed for *)
AliasPairs ==
  UNION {{<<TECH_ALIASES[i].aliases[k], TECH_ALIASES[i].canonical>> :
            k \in 1..Len(TECH_ALIASES[i].aliases)} : i \in 1..Len(TECH_ALIASES)}

(* the aliases as listed, in lower case and in upper case *)
SpelledPairs ==
  AliasPairs
  \cup {<<toLowerCase(p[1]), p[2]>> : p \in AliasPairs}
  \cup {<<toUpperCase(p[1]), p[2]>> : p \in AliasPairs}

(* "ıos", written with a dotless i *)
DotlessIos ==
  <<DotlessI, "o", "s">>

PaddedSwift ==
  <<" ", "s", "w", "i", "f", "t", " ">>

MaxNames ==
  3

CandidateLists ==
  {<<>>, <<Swift>>, <<NodeName, Elixir>>, <<DotlessIos>>, <<PaddedSwift, Cobol, UIKit>>}

RequiredLists ==
  {<<>>, <<Swift>>, <<NodeDotJs>>, <<NodeDotJs, Cobol>>, <<IosAlias, IosAlias>>,
   <<Cobol, Swift, ReactName>>, <<DotlessIos>>, <<<<>>>>}

(* the pairs of a candidate list and a required list the matcher is run on *)
NameCases ==
  {<< <<p[1]>>, <<p[2]>> >> : p \in SpelledPairs}
  \cup {<< <<c>>, <<c>> >> : c \in CanonicalNames}
  \cup {<< <<NodeDotJs>>, <<NodeName>> >>}
  \cup (CandidateLists \X RequiredLists)

InitNames ==
  /\ currentYear = ClockYear
  /\ retry = NoRetry
  /\ defaultMatchConfig = DEFAULT_MATCH_CONFIG
  /\ \E c \in NameCases :
       /\ jobs = <<BasicJob(<<"A","c","m","e">>, YearMonth(ClockYear - 3), <<>>, c[1], <<>>)>>
       /\ requirements = Requirements("senior", <<>>, <<>>, c[2], <<>>, FALSE, <<>>, <<>>)
  /\ skills = EmptyInventory
  /\ config = DEFAULT_MATCH_CONFIG
  /\ options = NoOptions
  /\ result = NoResult

candidateTechs ==
  normalizeJob(jobs[1]).technologies

NormalizeTechName(tech) ==
  /\ arrayIncludes(candidateTechs \o requirements.requiredTechnologies, tech)
  /\ result' = [op |-> "normalizeTechName", tech |-> tech, out |-> normalizeTechName(tech)]
  /\ UNCHANGED <<retry, currentYear, defaultMatchConfig, jobs, skills, requirements, config, options>>

TechMatches(i, k) ==
  /\ i \in 1..Len(candidateTechs)
  /\ k \in 1..Len(requirements.requiredTechnologies)
  /\ result' = [op |-> "techMatches",
                tech1 |-> candidateTechs[i],
                tech2 |-> requirements.requiredTechnologies[k],
                out |-> techMatches(candidateTechs[i], requirements.requiredTechnologies[k])]
  /\ UNCHANGED <<retry, currentYear, defaultMatchConfig, jobs, skills, requirements, config, options>>

FindMatchingTechs ==
  /\ result' = [op |-> "findMatchingTechs",
                out |-> findMatchingTechs(candidateTechs, requirements.requiredTechnologies)]
  /\ UNCHANGED <<retry, currentYear, defaultMatchConfig, jobs, skills, requirements, config, options>>

NextNames ==
  \/ \E list \in {candidateTechs, requirements.requiredTechnologies} :
       \E k \in 1..MaxNames : k <= Len(list) /\ NormalizeTechName(list[k])
  \/ \E i \in 1..MaxNames, k \in 1..MaxNames : TechMatches(i, k)
  \/ FindMatchingTechs

SpecNames ==
  InitNames /\ [][NextNames]_vars

-----------------------------------------------------------------------------
(* The normalizer, called on one job file *)

InitNormalize ==
  /\ currentYear = ClockYear
  /\ retry = NoRetry
  /\ defaultMatchConfig = DEFAULT_MATCH_CONFIG
  /\ jobs \in {<<job>> : job \in RawJobPool}
  /\ skills = EmptyInventory
  /\ requirements = Requirements("senior", <<>>, <<>>, <<>>, <<>>, FALSE, <<>>, <<>>)
  /\ config = DEFAULT_MATCH_CONFIG
  /\ options = NoOptions
  /\ result = NoResult

NormalizeJob ==
  /\ result' = IF normalizeJobThrows(jobs[1])
               THEN [op |-> "normalizeJob", threw |-> TRUE,
                     error |-> normalizeJobError(jobs[1])]
               ELSE [op |-> "normalizeJob", threw |-> FALSE, out |-> normalizeJob(jobs[1])]
  /\ UNCHANGED <<retry, currentYear, defaultMatchConfig, jobs, skills, requirements, config, options>>

GetJobEndYear ==
  /\ result.op = "normalizeJob"
  /\ ~result.threw
  /\ result' = [op |-> "getJobEndYear", job |-> result.out, out |-> getJobEndYear(result.out)]
  /\ UNCHANGED <<retry, currentYear, defaultMatchConfig, jobs, skills, requirements, config, options>>

ScoreNormalizedJob ==
  /\ result.op = "normalizeJob"
  /\ ~result.threw
  /\ result' = [op |-> "scoreJob", job |-> result.out,
                out |-> scoreJob(result.out, requirements, config)]
  /\ UNCHANGED <<retry, currentYear, defaultMatchConfig, jobs, skills, requirements, config, options>>

NextNormalize ==
  \/ NormalizeJob
  \/ GetJobEndYear
  \/ ScoreNormalizedJob

SpecNormalize ==
  InitNormalize /\ [][NextNormalize]_vars

-----------------------------------------------------------------------------
(* The three entry points that take raw job files, called on job lists in *)
(* which any position may hold a file of unknown format                   *)

CallJobLists ==
  UNION {[1..n -> {AcmeJob, CoreJob, UnknownJob}] : n \in 0..MaxJobs}

InitCalls ==
  /\ currentYear = ClockYear
  /\ retry = NoRetry
  /\ defaultMatchConfig = DEFAULT_MATCH_CONFIG
  /\ jobs \in CallJobLists
  /\ skills = FullInventory
  /\ requirements \in RequirementsPool
  /\ config = DEFAULT_MATCH_CONFIG
  /\ options = NoOptions
  /\ result = NoResult

QuickMatch ==
  /\ result' = [op |-> "quickMatch", out |-> quickMatch(jobs, requirements, config)]
  /\ UNCHANGED <<retry, currentYear, defaultMatchConfig, jobs, skills, requirements, config, options>>

(* the default minimum of 50 percent, or a minimum of 100 *)
MeetsMinimumRequirements(minCoveragePercent) ==
  /\ result' = [op |-> "meetsMinimumRequirements",
                out |-> meetsMinimumRequirements(jobs, requirements, minCoveragePercent)]
  /\ UNCHANGED <<retry, currentYear, defaultMatchConfig, jobs, skills, requirements, config, options>>

NextCalls ==
  \/ \E opts \in OptionsPool : Match(opts)
  \/ QuickMatch
  \/ \E minCoveragePercent \in {50, 100} : MeetsMinimumRequirements(minCoveragePercent)

SpecCalls ==
  InitCalls /\ [][NextCalls]_vars

-----------------------------------------------------------------------------
(* The sub-scorers, each called on one job: the seniority score over job   *)
(* levels and required seniorities, the recency score over end dates and   *)
(* decay rates, the technology score over technology and keyword lists     *)

SeniorityLevels ==
  {"junior", "mid", "senior", "staff", "principal", "lead", "manager", "director"}

(* the levels of the types and one value outside them *)
LevelPool ==
  SeniorityLevels \cup {"intern"}

LevelJob(level) ==
  EnhancedJob(<<"C","o","r","e">>, <<>>, level, YearMonth(ClockYear - 9),
              <<YearMonth(ClockYear - 1)>>, << <<Swift>> >>, <<>>, <<>>, <<>>, <<>>)

EndedJob(endDate) ==
  BasicJob(<<"A","c","m","e">>, YearMonth(ClockYear - 15), endDate, <<Swift>>, <<>>)

TechJob(technologies) ==
  BasicJob(<<"A","c","m","e">>, YearMonth(ClockYear - 3), <<>>, technologies, <<>>)

WeightedJob(relevanceWeights) ==
  EnhancedJob(<<"C","o","r","e">>, <<>>, <<"senior">>, YearMonth(ClockYear - 4), <<>>,
              << <<Swift>> >>, <<>>, <<>>, relevanceWeights, <<>>)

(* relevance weight maps: each weight left out, declared 0, or declared *)
(* with a value of its own                                              *)
WeightsPool ==
  { [mobile |-> m, leadership |-> l, startup |-> s, enterprise |-> e] :
      m \in {<<>>, <<0>>, <<ScoreOne>>},
      l \in {<<>>, <<0>>, <<Hundredths(50)>>},
      s \in {<<>>, <<0>>, <<Hundredths(20)>>},
      e \in {<<>>, <<0>>, <<Hundredths(80)>>} }

MaxYearsAgo ==
  12

(* no end date, an empty one, the word Present, "May 2017", and the years *)
(* from next year back to MaxYearsAgo years ago                           *)
EndDatePool ==
  {<<>>, <<<<>>>>, <<Present>>, <<MayDate>>}
  \cup {<<YearMonth(ClockYear - k)>> : k \in (-1)..MaxYearsAgo}

(* recencyDecay 0, 0.1 (the default) and 0.5 *)
DecayPool ==
  {0, Hundredths(10), Hundredths(50)}

PlainRequirements ==
  Requirements("senior", <<>>, <<>>, <<>>, <<>>, FALSE, <<>>, <<>>)

InitSubScores ==
  /\ currentYear = ClockYear
  /\ retry = NoRetry
  /\ defaultMatchConfig = DEFAULT_MATCH_CONFIG
  /\ skills = EmptyInventory
  /\ options = NoOptions
  /\ result = NoResult
  /\ \/ /\ jobs \in {<<LevelJob(level)>> : level \in {<<>>} \cup {<<l>> : l \in LevelPool}}
        /\ requirements \in {[PlainRequirements EXCEPT !.seniority = s] : s \in LevelPool}
        /\ config = DEFAULT_MATCH_CONFIG
     \/ /\ jobs \in {<<EndedJob(endDate)>> : endDate \in EndDatePool}
        /\ requirements = PlainRequirements
        /\ config \in {[DEFAULT_MATCH_CONFIG EXCEPT !.recencyDecay = d] : d \in DecayPool}
     \/ /\ jobs \in {<<TechJob(t)>> : t \in {<<>>, <<Swift, UIKit, SwiftUI>>, <<NodeName, Elixir>>}}
        /\ requirements \in
             { Requirements("senior", <<>>, <<>>, req, pref, FALSE, keywords, buzzwords) :
                 req \in {<<>>, <<Swift, UIKit>>, <<Swift, Cobol, NodeDotJs>>},
                 pref \in {<<>>, <<ReactName>>, <<NodeDotJs, Cobol>>, <<Swift>>},
                 keywords \in {<<>>, <<Crashes, Swift>>, <<TeamWord>>},
                 buzzwords \in {<<>>, <<Crashes>>} }
        /\ config = DEFAULT_MATCH_CONFIG
     \/ /\ jobs \in {<<WeightedJob(w)>> : w \in {<<>>} \cup {<<d>> : d \in WeightsPool}}
        /\ requirements \in
             { Requirements(seniority, companyType, <<>>, req, <<>>, lead, <<>>, <<>>) :
                 seniority \in {"senior", "lead", "manager"},
                 companyType \in {<<>>, <<"startup">>, <<"scaleup">>,
                                  <<"enterprise">>, <<"faang">>},
                 req \in {<<>>, <<Elixir, Swift>>},
                 lead \in BOOLEAN }
        /\ config = DEFAULT_MATCH_CONFIG

ScoreSeniorityMatch ==
  /\ result' = [op |-> "scoreSeniorityMatch",
                out |-> scoreSeniorityMatch(normalizeJob(jobs[1]), requirements)]
  /\ UNCHANGED <<retry, currentYear, defaultMatchConfig, jobs, skills, requirements, config, options>>

ScoreRecency ==
  /\ result' = [op |-> "scoreRecency", out |-> scoreRecency(normalizeJob(jobs[1]), config)]
  /\ UNCHANGED <<retry, currentYear, defaultMatchConfig, jobs, skills, requirements, config, options>>

ScoreTechnologyMatch ==
  /\ result' = [op |-> "scoreTechnologyMatch",
                out |-> scoreTechnologyMatch(normalizeJob(jobs[1]), requirements)]
  /\ UNCHANGED <<retry, currentYear, defaultMatchConfig, jobs, skills, requirements, config, options>>

ScoreRelevanceWeights ==
  /\ result' = [op |-> "scoreRelevanceWeights",
                out |-> scoreRelevanceWeights(normalizeJob(jobs[1]), requirements)]
  /\ UNCHANGED <<retry, currentYear, defaultMatchConfig, jobs, skills, requirements, config, options>>

NextSubScores ==
  \/ ScoreSeniorityMatch
  \/ ScoreRecency
  \/ ScoreTechnologyMatch
  \/ ScoreRelevanceWeights

SpecSubScores ==
  InitSubScores /\ [][NextSubScores]_vars

-----------------------------------------------------------------------------
(* The report on a job history: technology coverage and the summary *)

ReportRequirementsPool ==
  { Requirements("senior", <<>>, <<>>, req, pref, lead, <<>>, <<>>) :
      req \in {<<>>, <<Swift>>, <<Swift, NodeDotJs>>, <<Cobol, Swift, Elixir>>},
      pref \in {<<>>, <<ReactName>>, <<Swift, Cobol>>, <<UIKit, NodeName, Cobol>>},
      lead \in BOOLEAN }

(* coverage percents at and next to the thresholds of the fit buckets *)
PercentPool ==
  {0, 49, 50, 69, 70, 84, 85, 100}

InitReport ==
  /\ currentYear = ClockYear
  /\ retry = NoRetry
  /\ defaultMatchConfig = DEFAULT_MATCH_CONFIG
  /\ jobs \in {<<>>, <<CoreJob>>, <<AcmeJob, DeltaJob>>, <<DeltaJob, AcmeJob, CoreJob>>}
  /\ skills \in {EmptyInventory, FullInventory}
  /\ requirements \in ReportRequirementsPool
  /\ config = DEFAULT_MATCH_CONFIG
  /\ options = NoOptions
  /\ result = NoResult

AnalyzeTechnologyCoverage ==
  /\ result' = [op |-> "analyzeTechnologyCoverage",
                out |-> analyzeTechnologyCoverage(skills, normalizedJobsOf(jobs), requirements)]
  /\ UNCHANGED <<retry, currentYear, defaultMatchConfig, jobs, skills, requirements, config, options>>

GenerateMatchSummary(coveragePercent) ==
  /\ result' = [op |-> "generateMatchSummary",
                coveragePercent |-> coveragePercent,
                out |-> generateMatchSummary(coveragePercent,
                                             rankScores(jobs, requirements, config),
                                             requirements)]
  /\ UNCHANGED <<retry, currentYear, defaultMatchConfig, jobs, skills, requirements, config, options>>

NextReport ==
  \/ AnalyzeTechnologyCoverage
  \/ \E coveragePercent \in PercentPool : GenerateMatchSummary(coveragePercent)

SpecReport ==
  InitReport /\ [][NextReport]_vars

(* ------------------------------------------------------------------------ *)
(* analyzer/ollama-client.ts: OllamaClient.generateWithRetry.  The call is   *)
(* an async function: it runs from one await to the next in one step.  Its   *)
(* awaits are the generate call (settled by the server or by the request's   *)
(* AbortSignal.timeout) and the backoff timer.                               *)
(* ------------------------------------------------------------------------ *)

(* the largest maxRetries a caller passes *)
MaxRetries == 3

(* maxRetries = 2 unless the caller passes one *)
DefaultMaxRetries == 2

(* 'not found' *)
NotFoundText ==
  <<"n", "o", "t", " ", "f", "o", "u", "n", "d">>

(* '401' *)
UnauthorizedText ==
  <<"4", "0", "1">>

(* `Ollama request failed: ${response.status} - ${errorText}` for a missing model *)
ModelNotFoundError ==
  <<"O", "l", "l", "a", "m", "a", " ", "r", "e", "q", "u", "e", "s", "t", " ", "f",
    "a", "i", "l", "e", "d", ":", " ", "4", "0", "4", " ", "-", " ", "m", "o", "d",
    "e", "l", " ", "'", "l", "l", "a", "m", "a", "3", "'", " ", "n", "o", "t", " ",
    "f", "o", "u", "n", "d">>

(* the same message for a rejected credential *)
UnauthorizedError ==
  <<"O", "l", "l", "a", "m", "a", " ", "r", "e", "q", "u", "e", "s", "t", " ", "f",
    "a", "i", "l", "e", "d", ":", " ", "4", "0", "1", " ", "-", " ", "u", "n", "a",
    "u", "t", "h", "o", "r", "i", "z", "e", "d">>

(* the same message for a server that is busy *)
ServerBusyError ==
  <<"O", "l", "l", "a", "m", "a", " ", "r", "e", "q", "u", "e", "s", "t", " ", "f",
    "a", "i", "l", "e", "d", ":", " ", "5", "0", "0", " ", "-", " ", "s", "e", "r",
    "v", "e", "r", " ", "b", "u", "s", "y">>

(* the message of the TimeoutError that AbortSignal.timeout raises in fetch *)
TimeoutError ==
  <<"T", "h", "e", " ", "o", "p", "e", "r", "a", "t", "i", "o", "n", " ", "w", "a",
    "s", " ", "a", "b", "o", "r", "t", "e", "d", " ", "d", "u", "e", " ", "t", "o",
    " ", "t", "i", "m", "e", "o", "u", "t">>

(* new Error('Generate failed after retries') *)
GenerateFailedError ==
  <<"G", "e", "n", "e", "r", "a", "t", "e", " ", "f", "a", "i", "l", "e", "d", " ",
    "a", "f", "t", "e", "r", " ", "r", "e", "t", "r", "i", "e", "s">>

(* the messages of the errors a generate call rejects with *)
GenerateErrors ==
  {ModelNotFoundError, UnauthorizedError, ServerBusyError, TimeoutError}

(* lastError.message.includes('not found') || lastError.message.includes('401') *)
doesNotRetry(message) ==
  includes(message, NotFoundText) \/ includes(message, UnauthorizedText)

(* mutant of waitsBeforeRetry: backs off after every failed attempt *)
waitsAfterEveryFailure(attempt, maxRetries) ==
  attempt <= maxRetries

(* if (attempt < maxRetries) *)
waitsBeforeRetry(attempt, maxRetries) ==
  attempt < maxRetries

(* 1000 * Math.pow(2, attempt) *)
backoffDelay(attempt) ==
  1000 * 2^attempt

(* one entry of the call's trace *)
TraceEntry(kind, attempt, message, ms) ==
  [kind |-> kind, attempt |-> attempt, message |-> message, ms |-> ms]

(* generateWithRetry entered with this maxRetries, before its first statement *)
RetryCall(maxRetries) ==
  [pc |-> "called", maxRetries |-> maxRetries, attempt |-> 0, lastError |-> <<>>,
   timer |-> <<>>, trace |-> <<>>, thrown |-> <<>>]

(* the for statement's test with r.attempt, then either the generate call  *)
(* of the loop body or the throw after the loop                            *)
enterLoop(r) ==
  IF r.attempt <= r.maxRetries
    THEN [r EXCEPT !.pc = "generating",
                   !.trace = Append(@, TraceEntry("call", r.attempt, <<>>, 0))]
    ELSE [r EXCEPT !.pc = "thrown",
                   !.thrown = <<OrElse(r.lastError, GenerateFailedError)>>]

(* the catch block for an error with this message *)
catchError(r, message) ==
  IF doesNotRetry(message)
    THEN [r EXCEPT !.pc = "thrown", !.lastError = <<message>>, !.thrown = <<message>>]
    ELSE IF waitsBeforeRetry(r.attempt, r.maxRetries)
      THEN [r EXCEPT !.pc = "waiting", !.lastError = <<message>>,
                     !.timer = <<backoffDelay(r.attempt)>>]
      ELSE enterLoop([r EXCEPT !.lastError = <<message>>, !.attempt = @ + 1])

InitRetry ==
  /\ currentYear = ClockYear
  /\ defaultMatchConfig = DEFAULT_MATCH_CONFIG
  /\ jobs = <<>>
  /\ skills = EmptyInventory
  /\ requirements \in RequirementsPool
  /\ config = DEFAULT_MATCH_CONFIG
  /\ options = NoOptions
  /\ result = NoResult
  /\ retry \in {RetryCall(maxRetries) : maxRetries \in -1 .. MaxRetries}

(* the caller's call runs up to the first await *)
StartGenerateWithRetry ==
  /\ retry.pc = "called"
  /\ retry' = enterLoop(retry)
  /\ UNCHANGED <<currentYear, defaultMatchConfig, jobs, skills, requirements, config, options,
                 result>>

(* the generate call resolves: return await this.generate(prompt, options) *)
GenerateResolves ==
  /\ retry.pc = "generating"
  /\ retry' = [retry EXCEPT !.pc = "returned",
                            !.trace = Append(@, TraceEntry("resolved", retry.attempt, <<>>, 0))]
  /\ UNCHANGED <<currentYear, defaultMatchConfig, jobs, skills, requirements, config, options,
                 result>>

(* the generate call rejects with an error of this message *)
GenerateRejects(message) ==
  /\ retry.pc = "generating"
  /\ retry' = catchError([retry EXCEPT !.trace =
                            Append(@, TraceEntry("rejected", retry.attempt, <<message>>, 0))],
                         message)
  /\ UNCHANGED <<currentYear, defaultMatchConfig, jobs, skills, requirements, config, options,
                 result>>

(* the backoff timer fires: the loop goes on with attempt++ *)
BackoffElapses ==
  /\ retry.pc = "waiting"
  /\ retry' = enterLoop([retry EXCEPT
                           !.attempt = @ + 1,
                           !.timer = <<>>,
                           !.trace = Append(@, TraceEntry("waited", retry.attempt, <<>>,
                                                          Get(retry.timer)))])
  /\ UNCHANGED <<currentYear, defaultMatchConfig, jobs, skills, requirements, config, options,
                 result>>

NextRetry ==
  \/ StartGenerateWithRetry
  \/ GenerateResolves
  \/ \E message \in GenerateErrors : GenerateRejects(message)
  \/ BackoffElapses

SpecRetry ==
  InitRetry /\ [][NextRetry]_vars

(* every generate call settles (the request carries AbortSignal.timeout), *)
(* every timer fires and a started call runs                              *)
SpecRetryFair ==
  SpecRetry /\ WF_vars(NextRetry)
-----------------------------------------------------------------------------
(* Properties of the matching engine *)

(* a score is a number of the interval [0, 1] *)
InUnitInterval(score) ==
  ~IsNaN(score) /\ 0 <= score /\ score <= ScoreOne

(* no later element of a list of numbers is strictly greater than an earlier one *)
NonIncreasing(numbers) ==
  \A i, k \in 1..Len(numbers) : i < k => ~numLt(numbers[i], numbers[k])

scoresOf(items) ==
  [i \in 1..Len(items) |-> items[i].score]

(* how many numbers of a list are strictly greater than bound *)
CountAbove(numbers, bound) ==
  Cardinality({i \in 1..Len(numbers) : numbers[i] > bound})

(* every candidate strictly better than a selected item was selected too *)
NoBetterLeftOut(selected, candidates) ==
  \A i \in 1..Len(selected) :
    CountAbove(candidates, selected[i]) = CountAbove(selected, selected[i])

(* C1: when the required and the preferred technology lists are both empty, *)
(* a match reports a technology coverage of 100 percent, for every skills   *)
(* inventory and every job list                                             *)
C1_EmptyRequirementsFullyCovered ==
  (/\ Matched
   /\ requirements.requiredTechnologies = <<>>
   /\ requirements.preferredTechnologies = <<>>)
  => result.out.technologyCoverage.coveragePercent = 100

(* the relevance weights a normalized job declares all lie in [0, 1] *)
WeightsInUnitInterval(job) ==
  \/ ~Has(job.relevanceWeights)
  \/ \A f \in DOMAIN Get(job.relevanceWeights) :
       Has(Get(job.relevanceWeights)[f]) => InUnitInterval(Get(Get(job.relevanceWeights)[f]))

(* C2: for every normalized job whose relevance weights lie in [0, 1] and  *)
(* every requirements record, each of the five sub-scores of scoreJob is a *)
(* number in [0, 1]                                                        *)
C2_SubScoresInUnitInterval ==
  (result.op = "scoreJob" /\ WeightsInUnitInterval(result.job))
  => /\ InUnitInterval(result.out.scores.technologyMatch)
     /\ InUnitInterval(result.out.scores.domainMatch)
     /\ InUnitInterval(result.out.scores.seniorityMatch)
     /\ InUnitInterval(result.out.scores.recency)
     /\ InUnitInterval(result.out.scores.relevanceWeight)

(* C3: every score of scoreProject, scoreAchievement and calculateSkillScore *)
(* lies in [0, 1], also when all bonuses apply at once                       *)
C3_ItemScoresInUnitInterval ==
  /\ result.op \in {"scoreProject", "scoreAchievement"} => InUnitInterval(result.out.score)
  /\ result.op = "calculateSkillScore" => InUnitInterval(result.out)

(* a required, expert, featured, want-to-use skill used this year for five *)
(* years or more has been scored                                           *)
C3_AllSkillBonusesApply ==
  /\ result.op = "calculateSkillScore"
  /\ result.isRequired
  /\ result.skill.level = "expert"
  /\ result.skill.wantToUse
  /\ result.skill.lastUsed = currentYear
  /\ result.skill.yearsUsed >= 5
  /\ isFeatured(result.skill.name, skills)
  /\ result.out = ScoreOne

(* the weighted sum of five sub-scores, in the units of a total *)
WeightedSum(scores, weights) ==
  IF \E f \in DOMAIN scores : IsNaN(scores[f]) THEN NaN
  ELSE scores.technologyMatch * weights.technology
     + scores.domainMatch * weights.domain
     + scores.seniorityMatch * weights.seniority
     + scores.recency * weights.recency
     + scores.relevanceWeight * weights.relevance

(* C4: the totalScore of scoreJob is the weighted sum of the five reported *)
(* sub-scores, and under the default weights it lies in [0, 1] for every   *)
(* job and requirements                                                    *)
C4_TotalScoreIsWeightedSumInUnitInterval ==
  result.op = "scoreJob"
  => /\ result.out.totalScore = WeightedSum(result.out.scores, config.weights)
     /\ config.weights = DEFAULT_MATCH_CONFIG.weights
        => /\ ~IsNaN(result.out.totalScore)
           /\ 0 <= result.out.totalScore
           /\ result.out.totalScore <= TotalOne

(* the scores of all projects of a job history *)
projectScores(rawJobs, reqs) ==
  flatten([i \in 1..Len(rawJobs) |->
    [k \in 1..Len(normalizeJob(rawJobs[i]).projects) |->
      scoreProject(normalizeJob(rawJobs[i]).projects[k], reqs).score]])

(* the scores of all achievements of a job history *)
achievementScores(rawJobs, reqs) ==
  flatten([i \in 1..Len(rawJobs) |->
    [k \in 1..Len(normalizeJob(rawJobs[i]).achievements) |->
      scoreAchievement(normalizeJob(rawJobs[i]).achievements[k], reqs).score]])

(* min(max(lo, relevant), hi) *)
TargetCount(lo, relevant, hi) ==
  IF lo >= relevant
  THEN (IF lo <= hi THEN lo ELSE hi)
  ELSE (IF relevant <= hi THEN relevant ELSE hi)

(* a selection of length len out of candidates has the documented size *)
SelectionSized(len, candidates, lo, hi) ==
  lo <= hi
  => With(TargetCount(lo, CountAbove(candidates, Hundredths(50)), hi), LAMBDA target :
       /\ Len(candidates) >= target => len = target
       /\ Len(candidates) >= lo => (lo <= len /\ len <= hi))

(* C5: for every configuration with min <= max, selectProjects and         *)
(* selectAchievements return exactly min(max(minToShow, number of          *)
(* candidates scoring above 0.5), maxToShow) items when that many          *)
(* candidates exist, so the length lies in [minToShow, maxToShow] whenever *)
(* the jobs hold at least minToShow candidates                             *)
C5_SelectionCountIsBounded ==
  /\ result.op = "selectProjects"
     => SelectionSized(Len(result.out), projectScores(jobs, requirements),
                       config.minProjectsToShow, config.maxProjectsToShow)
  /\ result.op = "selectAchievements"
     => SelectionSized(Len(result.out), achievementScores(jobs, requirements),
                       config.minAchievementsToShow, config.maxAchievementsToShow)

(* a selection whose size is set by the number of projects scoring above *)
(* 0.5: more than the minimum, fewer than the maximum, not all of them   *)
C5_CountSetByRelevantProjects ==
  /\ result.op = "selectProjects"
  /\ config.minProjectsToShow < Len(result.out)
  /\ Len(result.out) < config.maxProjectsToShow
  /\ Len(result.out) < Len(projectScores(jobs, requirements))
  /\ Len(result.out) = CountAbove(projectScores(jobs, requirements), Hundredths(50))

(* C6: selectSkills returns between minSkillsToShow and maxSkillsToShow   *)
(* skills whenever the inventory holds at least minSkillsToShow skills    *)
(* (for a configuration with min <= max)                                  *)
C6_SkillCountBoundedByInventory ==
  (/\ result.op = "selectSkills"
   /\ config.minSkillsToShow <= config.maxSkillsToShow
   /\ Len(getAllSkills(skills)) >= config.minSkillsToShow)
  => /\ config.minSkillsToShow <= Len(result.out)
     /\ Len(result.out) <= config.maxSkillsToShow

(* the skills selectSkills considers at all: those matching a required or *)
(* a preferred technology, and the other skills it keeps                  *)
EligibleSkills(sk, reqs) ==
  SelectSeq(getAllSkills(sk), LAMBDA s :
    \/ skillMatchesAny(s, reqs.requiredTechnologies)
    \/ skillMatchesAny(s, reqs.preferredTechnologies)
    \/ keepsOtherSkill(s, sk))

(* C6, amended: selectSkills never returns more than maxSkillsToShow      *)
(* skills, and for a configuration with min <= max it returns at least    *)
(* minSkillsToShow whenever at least that many skills of the inventory    *)
(* are eligible: matching a required or preferred technology, or not      *)
(* deprecated and featured, expert or want-to-use                         *)
C6_SkillCountBoundedByEligible ==
  result.op = "selectSkills"
  => /\ Len(result.out) <= config.maxSkillsToShow
     /\ (/\ config.minSkillsToShow <= config.maxSkillsToShow
         /\ Len(EligibleSkills(skills, requirements)) >= config.minSkillsToShow)
        => config.minSkillsToShow <= Len(result.out)

(* the minimum fills the list: no skill matches a requirement, and the *)
(* eligible other skills make up the minimum                           *)
C6_MinimumFilledByOtherSkills ==
  /\ result.op = "selectSkills"
  /\ config.minSkillsToShow >= 1
  /\ config.minSkillsToShow <= config.maxSkillsToShow
  /\ Len(EligibleSkills(skills, requirements)) >= config.minSkillsToShow
  /\ \A i \in 1..Len(result.out) : ~result.out[i].isRequired /\ ~result.out[i].isPreferred
  /\ Len(result.out) = config.minSkillsToShow

(* the normalized jobs a match selects content from: those still ranked *)
rankedNormalizedJobs(rawJobs, rankedJobs) ==
  SelectSeq(normalizedJobsOf(rawJobs), LAMBDA j :
    \E i \in 1..Len(rankedJobs) :
      rankedJobs[i].jobId = j.companyName \o <<"-">> \o j.startDate)

(* C7: in every match result rankedJobs is ordered by non-increasing       *)
(* totalScore, selectedProjects and selectedAchievements are ordered by    *)
(* non-increasing score, and no selected item scores strictly lower than   *)
(* an item of the same kind that was left out                              *)
C7_ResultsSortedAndBestSelected ==
  Matched
  => /\ NonIncreasing([i \in 1..Len(result.out.rankedJobs) |->
                         result.out.rankedJobs[i].totalScore])
     /\ NonIncreasing(scoresOf(result.out.selectedProjects))
     /\ NonIncreasing(scoresOf(result.out.selectedAchievements))
     /\ With(rankedNormalizedJobs(jobs, result.out.rankedJobs), LAMBDA kept :
          /\ NoBetterLeftOut(scoresOf(result.out.selectedProjects),
               flatten([i \in 1..Len(kept) |->
                 [k \in 1..Len(kept[i].projects) |->
                   scoreProject(kept[i].projects[k], requirements).score]]))
          /\ NoBetterLeftOut(scoresOf(result.out.selectedAchievements),
               flatten([i \in 1..Len(kept) |->
                 [k \in 1..Len(kept[i].achievements) |->
                   scoreAchievement(kept[i].achievements[k], requirements).score]])))

(* the group of a scored skill: required, preferred, other *)
SkillGroup(s) ==
  IF s.isRequired THEN 0 ELSE IF s.isPreferred THEN 1 ELSE 2

coverageBeforeLastJob ==
  analyzeTechnologyCoverage(skills, normalizedJobsOf(SubSeq(jobs, 1, Len(jobs) - 1)),
                            requirements)

(* what is covered in rows before stays covered in rows after *)
StaysCovered(before, after) ==
  \A i \in 1..Len(before) : before[i].covered => after[i].covered

(* C9: for fixed skills and requirements, appending a job to the job list *)
(* never lowers technologyCoverage.coveragePercent and never turns a      *)
(* covered technology into an uncovered one                               *)
C9_CoverageMonotonicUnderAppend ==
  (Matched /\ jobs # <<>>)
  => With2(coverageBeforeLastJob, result.out.technologyCoverage, LAMBDA before, after :
       /\ after.coveragePercent >= before.coveragePercent
       /\ StaysCovered(before.required, after.required)
       /\ StaysCovered(before.preferred, after.preferred))

(* the last job appended covers a technology that nothing covered before, *)
(* after an earlier job that already covered another                      *)
C9_LastJobRaisesCoverage ==
  /\ Matched
  /\ Len(jobs) >= 2
  /\ With2(coverageBeforeLastJob, result.out.technologyCoverage, LAMBDA before, after :
       /\ after.coveragePercent > before.coveragePercent
       /\ before.coveragePercent > 0)

(* C10: for fixed jobs, skills, requirements, options and date, every call *)
(* of matchAgainstRequirements returns the same result, whatever calls on  *)
(* these or other inputs came before it                                    *)
C10_MatchDependsOnInputsOnly ==
  result.op = "match"
  => result.out = matchWithDefaults(DEFAULT_MATCH_CONFIG, jobs, skills, requirements, options)

(* a call without options on a history of several jobs, whose result holds *)
(* more projects than an earlier call's override would allow               *)
C10_DefaultCallAfterHistory ==
  /\ Matched
  /\ Len(jobs) >= 2
  /\ options = NoOptions
  /\ Len(result.out.selectedProjects) >= 2

-----------------------------------------------------------------------------
(* technology names *)

requiredPositions(candidates, required, wanted) ==
  SelectSeq([i \in 1..Len(required) |-> i],
            LAMBDA i : wanted = (\E k \in 1..Len(candidates) :
                                   techMatches(candidates[k], required[i])))

canonicalAt(required, positions) ==
  [k \in 1..Len(positions) |-> normalizeTechName(required[positions[k]])]

(* C12: findMatchingTechs reports every entry of the required list once, *)
(* canonicalized: in matched if some candidate matches it, in missing    *)
(* otherwise, so that the two lengths add up to that of the list         *)
C12_EachRequiredReportedOnce ==
  result.op = "findMatchingTechs"
  => /\ Len(result.out.matched) + Len(result.out.missing)
          = Len(requirements.requiredTechnologies)
     /\ result.out.matched
          = canonicalAt(requirements.requiredTechnologies,
                        requiredPositions(candidateTechs,
                                          requirements.requiredTechnologies, TRUE))
     /\ result.out.missing
          = canonicalAt(requirements.requiredTechnologies,
                        requiredPositions(candidateTechs,
                                          requirements.requiredTechnologies, FALSE))

(* a candidate other than the first matches a required name, and another *)
(* required name is missing and reported under its canonical spelling    *)
C12_MatchedByLaterCandidateAndMissing ==
  /\ result.op = "findMatchingTechs"
  /\ Len(candidateTechs) >= 2
  /\ Len(result.out.matched) >= 1
  /\ Len(result.out.missing) >= 1
  /\ ~techMatches(candidateTechs[1], requirements.requiredTechnologies[2])
  /\ arrayIncludes(result.out.matched,
                   normalizeTechName(requirements.requiredTechnologies[2]))
  /\ ~arrayIncludes(requirements.requiredTechnologies, result.out.missing[1])

-----------------------------------------------------------------------------
(* normalization errors *)

(* C13: normalizeJob fails exactly when the company field is neither a *)
(* string nor an object, and then with 'Unknown job format'; any job   *)
(* whose company is a string or an object yields a normalized job      *)
C13_OnlyUnknownFormatFails ==
  result.op = "normalizeJob"
  => /\ result.threw <=> jobs[1].typeofCompany \notin {"string", "object"}
     /\ result.threw => result.error = "Unknown job format"

(* some job of the list has a company that is neither string nor object *)
HasUnrecognizedJob ==
  \E i \in 1..Len(jobs) : jobs[i].typeofCompany \notin {"string", "object"}

(* C14: when any job of the list is of unrecognized shape, at any position, *)
(* matchAgainstRequirements, quickMatch and meetsMinimumRequirements end    *)
(* with the normalization error and return nothing                          *)
C14_NormalizationErrorPropagates ==
  (result.op \in {"match", "quickMatch", "meetsMinimumRequirements"} /\ HasUnrecognizedJob)
  => /\ result.out.threw
     /\ result.out.error = "Unknown job format"
     /\ DOMAIN result.out = {"threw", "error"}

(* quickMatch fails on a list whose only unrecognized job comes last, *)
(* after two jobs that normalize                                      *)
C14_LastJobUnrecognized ==
  /\ result.op = "quickMatch"
  /\ result.out.threw
  /\ Len(jobs) = 3
  /\ \A i \in 1..2 : jobs[i].typeofCompany \in {"string", "object"}

-----------------------------------------------------------------------------
(* aliases *)

(* C15: every alias of the table, in any letter case, is normalized to the *)
(* canonical name it is listed for and matches that name; "node.js"        *)
(* matches "Node"                                                          *)
C15_AliasesCanonicalized ==
  /\ result.op = "normalizeTechName"
     => \A p \in SpelledPairs : p[1] = result.tech => result.out = p[2]
  /\ (result.op = "techMatches"
      /\ \/ <<result.tech1, result.tech2>> \in SpelledPairs
         \/ <<result.tech1, result.tech2>> = <<NodeDotJs, NodeName>>)
     => result.out

-----------------------------------------------------------------------------
(* the sub-scores *)

SeniorityScale ==
  <<"junior", "mid", "senior", "staff", "lead", "principal", "manager", "director">>

scaleIndex(level) ==
  CHOOSE i \in 1..Len(SeniorityScale) : SeniorityScale[i] = level

(* the seniority score of a job at scale index ij for a posting at index ir *)
seniorityByGap(ij, ir) ==
  IF ij = ir THEN ScoreOne
  ELSE IF ij = ir + 1 THEN Hundredths(90)
  ELSE IF ij = ir - 1 THEN Hundredths(70)
  ELSE IF ij < ir - 1
       THEN With(Hundredths(70) - Hundredths(15) * (ir - ij - 1), LAMBDA decayed :
              IF decayed > Hundredths(30) THEN decayed ELSE Hundredths(30))
  ELSE Hundredths(80)

(* C16: for every job level and required seniority on the scale junior, *)
(* mid, senior, staff, lead, principal, manager, director the seniority  *)
(* score is 1.0 for equal levels, 0.9 for a job one level above, 0.7 for *)
(* one level below, max(0.3, 0.7 - 0.15 * (gap - 1)) further below and   *)
(* 0.8 further above                                                     *)
C16_SeniorityScoreByGap ==
  (/\ result.op = "scoreSeniorityMatch"
   /\ isEnhancedJob(jobs[1])
   /\ Has(jobs[1].role.level)
   /\ Get(jobs[1].role.level) \in SeniorityLevels
   /\ requirements.seniority \in SeniorityLevels)
  => result.out = seniorityByGap(scaleIndex(Get(jobs[1].role.level)),
                                 scaleIndex(requirements.seniority))

(* a junior job scored for a senior posting gets 0.55 *)
C16_JuniorForSenior ==
  /\ result.op = "scoreSeniorityMatch"
  /\ isEnhancedJob(jobs[1])
  /\ jobs[1].role.level = <<"junior">>
  /\ requirements.seniority = "senior"
  /\ result.out = Hundredths(55)

(* the year an end date names, for the end dates that name one *)
EndYears ==
  {<<YearMonth(ClockYear - k), ClockYear - k>> : k \in (-1)..MaxYearsAgo}
  \cup {<<MayDate, 2017>>}

namesYear(endDate) ==
  \E p \in EndYears : p[1] = endDate

yearsSince(endDate) ==
  currentYear - (CHOOSE p \in EndYears : p[1] = endDate)[2]

(* 1.0 up to two years back, then max(0.2, 1 - decay * (yearsAgo - 2)) *)
recencyByAge(yearsAgo, decay) ==
  IF yearsAgo <= 2 THEN ScoreOne
  ELSE With(ScoreOne - decay * (yearsAgo - 2), LAMBDA decayed :
         IF decayed > Hundredths(20) THEN decayed ELSE Hundredths(20))

(* C17: the recency score is 1.0 for a job without end date or ended at  *)
(* most 2 years before the current year, and otherwise                   *)
(* max(0.2, 1 - recencyDecay * (yearsAgo - 2)); it is a number of at     *)
(* least 0.2 and no higher than the score of a job that ended a year     *)
(* later                                                                 *)
C17_RecencyDecaysToFloor ==
  (result.op = "scoreRecency" /\ isBasicJob(jobs[1]))
  => With(jobs[1].endDate, LAMBDA endDate :
       /\ ~IsNaN(result.out)
       /\ result.out >= Hundredths(20)
       /\ (~Has(endDate) \/ Get(endDate) = <<>>) => result.out = ScoreOne
       /\ (Has(endDate) /\ namesYear(Get(endDate)))
          => /\ result.out = recencyByAge(yearsSince(Get(endDate)), config.recencyDecay)
             /\ result.out <= recencyByAge(yearsSince(Get(endDate)) - 1, config.recencyDecay))

(* how many names of a list some technology of the job matches *)
matchedCount(technologies, names) ==
  Cardinality({i \in 1..Len(names) :
                 \E k \in 1..Len(technologies) : techMatches(technologies[k], names[i])})

(* min(1, base + 0.2 * preferredRatio), base being matched / total or 0.5 *)
(* for an empty list, preferredRatio being 0 for an empty preferred list  *)
technologyScoreOf(matched, total, prefMatched, prefTotal) ==
  With((IF total = 0 THEN Hundredths(50) ELSE (matched * ScoreOne) \div total)
       + (IF prefTotal = 0 THEN 0 ELSE (prefMatched * Hundredths(20)) \div prefTotal),
    LAMBDA sum : IF sum < ScoreOne THEN sum ELSE ScoreOne)

(* C18: the technology score is min(1, base + 0.2 * preferredRatio), where *)
(* base is the matched fraction of the required technologies together     *)
(* with the keywords that are no buzzwords, or 0.5 when there are none,   *)
(* and preferredRatio is the matched fraction of the preferred            *)
(* technologies, 0 when there are none                                    *)
C18_TechnologyScoreWithBonus ==
  (result.op = "scoreTechnologyMatch" /\ isBasicJob(jobs[1]))
  => With2(Get(jobs[1].technologies),
           requirements.requiredTechnologies
             \o SelectSeq(requirements.keywords,
                          LAMBDA k : \A b \in 1..Len(requirements.buzzwords) :
                                       requirements.buzzwords[b] # k),
       LAMBDA technologies, wanted :
         result.out = technologyScoreOf(
                        matchedCount(technologies, wanted), Len(wanted),
                        matchedCount(technologies, requirements.preferredTechnologies),
                        Len(requirements.preferredTechnologies)))

-----------------------------------------------------------------------------
(* the report *)

(* C19: the overall fit of the summary is 'excellent' exactly for a       *)
(* coverage of at least 85 percent, 'good' from 70 up to 85, 'moderate'   *)
(* from 50 up to 70 and 'weak' below 50, whatever the ranked jobs and the *)
(* requirements                                                           *)
C19_FitFromCoverageAlone ==
  result.op = "generateMatchSummary"
  => With2(result.coveragePercent, result.out.overallFit, LAMBDA percent, fit :
       /\ fit = "excellent" <=> percent >= 85
       /\ fit = "good" <=> (70 <= percent /\ percent < 85)
       /\ fit = "moderate" <=> (50 <= percent /\ percent < 70)
       /\ fit = "weak" <=> percent < 50)

(* a coverage of exactly 85 percent is an excellent fit, for a history *)
(* with missing technologies                                           *)
C19_ExcellentAtThreshold ==
  /\ result.op = "generateMatchSummary"
  /\ result.coveragePercent = 85
  /\ result.out.overallFit = "excellent"
  /\ result.out.gaps # <<>>

(* the covered rows and the length of a coverage table, both 1 for an *)
(* empty table: a ratio taken as 1                                    *)
coveredOrFull(rows) ==
  IF rows = <<>> THEN 1 ELSE Cardinality({i \in 1..Len(rows) : rows[i].covered})

lengthOrFull(rows) ==
  IF rows = <<>> THEN 1 ELSE Len(rows)

(* round(100 * (0.7 * rc / rt + 0.3 * pc / pt)), halves rounded up *)
percentOfRatios(rc, rt, pc, pt) ==
  (2 * (70 * rc * pt + 30 * pc * rt) + rt * pt) \div (2 * rt * pt)

(* C20: coveragePercent is an integer from 0 to 100, namely                *)
(* round((requiredRatio * 0.7 + preferredRatio * 0.3) * 100), each ratio   *)
(* being covered count over list length and 1 for an empty list            *)
C20_CoveragePercentFromRatios ==
  result.op = "analyzeTechnologyCoverage"
  => /\ result.out.coveragePercent \in 0..100
     /\ result.out.coveragePercent
          = percentOfRatios(coveredOrFull(result.out.required),
                            lengthOrFull(result.out.required),
                            coveredOrFull(result.out.preferred),
                            lengthOrFull(result.out.preferred))
-----------------------------------------------------------------------------
(* unknown levels *)

(* the level scoreSeniorityMatch is given: none, or one off the scale *)
levelUnknown(job) ==
  ~Has(job.level) \/ Get(job.level) \notin SeniorityLevels

(* C21: the seniority score is the neutral 0.5 whenever the normalized   *)
(* job has no level (as every basic job) or a level off the eight-level  *)
(* scale, or the required seniority is off the scale, whatever the other *)
(* side is                                                               *)
C21_UnknownLevelNeutral ==
  (/\ result.op = "scoreSeniorityMatch"
   /\ levelUnknown(normalizeJob(jobs[1])) \/ requirements.seniority \notin SeniorityLevels)
  => result.out = Hundredths(50)

-----------------------------------------------------------------------------
(* dates without a year *)

(* a date string in which no four digits stand in a row *)
yearless(dateStr) ==
  fourDigitStarts(dateStr) = <<>>

(* a basic job file whose start date or end date names no year *)
hasYearlessDate(job) ==
  /\ isBasicJob(job)
  /\ \/ Has(job.startDate) /\ yearless(Get(job.startDate))
     \/ Has(job.endDate) /\ yearless(Get(job.endDate))

(* a number that is not NaN *)
IsNumber(a) ==
  ~IsNaN(a)

(* C22: for a basic job whose start or end date string holds no 4-digit  *)
(* year (such as 'Present' or the empty string) normalizeJob does not    *)
(* throw, the durationMonths it computes is a number >= 1, and scoreJob  *)
(* gives a recency and a totalScore that are numbers in [0,1]            *)
C22_YearlessDatesDegradeGracefully ==
  hasYearlessDate(jobs[1]) =>
    /\ result.op = "normalizeJob" =>
         /\ ~result.threw
         /\ IsNumber(result.out.durationMonths)
         /\ result.out.durationMonths >= 1
    /\ result.op = "scoreJob" =>
         /\ IsNumber(result.job.durationMonths) /\ result.job.durationMonths >= 1
         /\ InUnitInterval(result.out.scores.recency)
         /\ IsNumber(result.out.totalScore)
         /\ 0 <= result.out.totalScore /\ result.out.totalScore <= TotalOne

-----------------------------------------------------------------------------
(* relevance weights *)

(* the weights a job declares whose requirement condition is active: the *)
(* mobile weight when a mobile technology is required, the leadership    *)
(* weight when leadership is required or the seniority is lead or        *)
(* manager, the startup weight for startup and scaleup, the enterprise   *)
(* weight for enterprise and faang                                       *)
applicableWeights(weights, reqs) ==
  SelectSeq(
    << [on |-> \E i \in 1..Len(reqs.requiredTechnologies) :
                 reqs.requiredTechnologies[i] \in MobileTechnologies,
        weight |-> weights.mobile],
       [on |-> reqs.leadershipRequired \/ reqs.seniority \in {"lead", "manager"},
        weight |-> weights.leadership],
       [on |-> reqs.companyType \in {<<"startup">>, <<"scaleup">>},
        weight |-> weights.startup],
       [on |-> reqs.companyType \in {<<"enterprise">>, <<"faang">>},
        weight |-> weights.enterprise] >>,
    LAMBDA f : f.on /\ Has(f.weight))

RECURSIVE sumDeclared(_)
sumDeclared(factors) ==
  IF factors = <<>> THEN 0 ELSE Get(Head(factors).weight) + sumDeclared(Tail(factors))

(* C23: scoreRelevanceWeights returns the arithmetic mean of exactly the *)
(* weights the job declares, a declared 0 included, whose requirement    *)
(* condition is active, and the neutral 0.5 when the job declares none   *)
(* of the applicable weights                                             *)
C23_RelevanceIsMeanOfApplicableWeights ==
  result.op = "scoreRelevanceWeights" =>
    With(IF Has(normalizeJob(jobs[1]).relevanceWeights)
         THEN applicableWeights(Get(normalizeJob(jobs[1]).relevanceWeights), requirements)
         ELSE <<>>,
      LAMBDA declared :
        IF declared = <<>> THEN result.out = Hundredths(50)
        ELSE result.out * Len(declared) = sumDeclared(declared))

-----------------------------------------------------------------------------
(* the skills selectSkills returns *)

(* a skill that fuzzy-matches a required or preferred technology by its *)
(* name or one of its keywords                                          *)
matchesRequirements(skill, reqs) ==
  \/ skillMatchesAny(skill, reqs.requiredTechnologies)
  \/ skillMatchesAny(skill, reqs.preferredTechnologies)

Min(a, b) ==
  IF a <= b THEN a ELSE b

(* C24: every skill selectSkills returns that matches neither a required *)
(* nor a preferred technology is featured, expert-level or marked        *)
(* want-to-use and matches no name of the deprecated list; the skills    *)
(* that match a required or preferred technology are returned, up to     *)
(* maxSkillsToShow of them, deprecated or not                            *)
C24_OtherSkillsFilteredMatchingKept ==
  result.op = "selectSkills" =>
    /\ \A i \in 1..Len(result.out) :
         ~matchesRequirements(result.out[i], requirements) =>
           /\ \/ isFeatured(result.out[i].name, skills)
              \/ result.out[i].level = "expert"
              \/ result.out[i].wantToUse
           /\ ~isDeprecated(result.out[i].name, skills)
    /\ Len(SelectSeq(result.out, LAMBDA s : matchesRequirements(s, requirements)))
       = Min(Len(SelectSeq(getAllSkills(skills),
                   LAMBDA s : matchesRequirements(s, requirements))),
             config.maxSkillsToShow)

(* a deprecated skill is returned because a keyword of it is required, *)
(* while another deprecated skill, featured and expert, is left out    *)
(* although the list has room                                          *)
C24_DeprecatedKeptOnlyWhenRequired ==
  /\ result.op = "selectSkills"
  /\ skills = LegacyInventory
  /\ requirements.requiredTechnologies = <<Swift, NodeDotJs>>
  /\ Len(result.out) < config.maxSkillsToShow
  /\ \E i \in 1..Len(result.out) :
       /\ result.out[i].name = Backend
       /\ result.out[i].isRequired
       /\ isDeprecated(Backend, skills)
  /\ \A i \in 1..Len(result.out) : result.out[i].name # Cobol

-----------------------------------------------------------------------------
(* the technologies of a normalized job *)

NoRepeatedEntry(list) ==
  \A i, k \in 1..Len(list) : list[i] = list[k] => i = k

Entries(list) ==
  {list[i] : i \in 1..Len(list)}

(* every technology an enhanced job file names: in its categorized *)
(* sub-lists and in the technology lists of its projects           *)
namedTechnologies(job) ==
  UNION {Entries(sub) : sub \in Entries(OrElse(job.technologies, <<>>))}
  \cup UNION {Entries(OrElse(p.technologies, <<>>)) : p \in Entries(OrElse(job.projects, <<>>))}

(* C25: for both job variants the technologies list normalizeJob returns *)
(* holds no entry twice: for an enhanced job it is the set union of the  *)
(* categorized sub-lists and the projects' technology lists, for a basic *)
(* job its technology list without duplicates                            *)
C25_TechnologiesDeduplicated ==
  (result.op = "normalizeJob" /\ ~result.threw) =>
    /\ NoRepeatedEntry(result.out.technologies)
    /\ isEnhancedJob(jobs[1]) =>
         Entries(result.out.technologies) = namedTechnologies(jobs[1])
    /\ isBasicJob(jobs[1]) =>
         Entries(result.out.technologies) = Entries(OrElse(jobs[1].technologies, <<>>))

-----------------------------------------------------------------------------
(* coverage and skill matching *)

(* the rows of a coverage table whose technology a skill of the given *)
(* partition matches by name or keyword are all covered               *)
partitionCovered(partition, rows) ==
  \A i \in 1..Len(rows) :
    (\E k \in 1..Len(partition) : skillMatchesAny(partition[k], <<rows[i].tech>>))
    => rows[i].covered

(* C26: whenever findMatchingSkills places a skill in the required (or   *)
(* preferred) partition because its name or a keyword of it fuzzy-       *)
(* matches a technology of the required (or preferred) list, the         *)
(* coverage reports that technology as covered; and a technology listed  *)
(* as required and as preferred has the same covered flag in both tables *)
C26_CoverageAgreesWithSkillMatching ==
  result.op = "analyzeTechnologyCoverage" =>
    With(findMatchingSkills(skills, requirements.requiredTechnologies,
                            requirements.preferredTechnologies),
      LAMBDA parts :
        /\ partitionCovered(parts.required, result.out.required)
        /\ partitionCovered(parts.preferred, result.out.preferred)
        /\ \A i \in 1..Len(result.out.required), k \in 1..Len(result.out.preferred) :
             result.out.required[i].tech = result.out.preferred[k].tech
             => result.out.required[i].covered = result.out.preferred[k].covered)

-----------------------------------------------------------------------------
(* the gaps of the summary *)

(* the technologies the gaps of a summary name *)
namedInGaps(summary) ==
  UNION {Entries(summary.gaps[g].missingTechnologies) : g \in 1..Len(summary.gaps)}

(* the technologies at least one ranked job fails to match *)
missedBySomeJob(rankedJobs) ==
  UNION {Entries(rankedJobs[i].missingTechnologies) : i \in 1..Len(rankedJobs)}

(* a technology that some ranked job matches *)
matchedBySomeJob(tech, rankedJobs) ==
  \E i \in 1..Len(rankedJobs) : arrayIncludes(rankedJobs[i].matchedTechnologies, tech)

(* a technology that a row of a coverage table reports as covered *)
reportedCovered(tech, rows) ==
  \E i \in 1..Len(rows) : normalizeTechName(rows[i].tech) = tech /\ rows[i].covered

(* C27: every technology named in the 'Missing technologies' entry of   *)
(* the gaps is matched by no ranked job and is reported as not covered  *)
(* in technologyCoverage; the gaps are empty when every required and    *)
(* preferred technology is matched by at least one ranked job           *)
C27_GapsNameWhatNoJobMatches ==
  Matched =>
    /\ \A t \in namedInGaps(result.out.summary) :
         /\ ~matchedBySomeJob(t, result.out.rankedJobs)
         /\ ~reportedCovered(t, result.out.technologyCoverage.required)
         /\ ~reportedCovered(t, result.out.technologyCoverage.preferred)
    /\ (\A t \in Entries(requirements.requiredTechnologies \o requirements.preferredTechnologies) :
          matchedBySomeJob(normalizeTechName(t), result.out.rankedJobs))
       => result.out.summary.gaps = <<>>

(* C27, amended: the gaps hold at most one 'Missing technologies' entry;  *)
(* it names, without repetition, three of the technologies that at least  *)
(* one ranked job fails to match, or all of them when they are fewer,     *)
(* whether or not another ranked job or a skill covers them; the gaps are *)
(* empty exactly when every ranked job matches every required and         *)
(* preferred technology                                                   *)
C27_GapsNameWhatSomeJobMisses ==
  Matched =>
    With2(result.out.summary.gaps, missedBySomeJob(result.out.rankedJobs),
      LAMBDA gaps, missed :
        /\ Len(gaps) <= 1
        /\ gaps = <<>> <=> missed = {}
        /\ gaps # <<>> =>
             /\ NoRepeatedEntry(gaps[1].missingTechnologies)
             /\ Entries(gaps[1].missingTechnologies) \subseteq missed
             /\ Len(gaps[1].missingTechnologies) = Min(3, Cardinality(missed)))

(* four technologies are missed by some ranked job, three are named, and *)
(* one of the named is matched by another ranked job                     *)
C27_NamedGapMatchedByAnotherJob ==
  /\ Matched
  /\ Cardinality(missedBySomeJob(result.out.rankedJobs)) = 4
  /\ Cardinality(namedInGaps(result.out.summary)) = 3
  /\ \E t \in namedInGaps(result.out.summary) : matchedBySomeJob(t, result.out.rankedJobs)

-----------------------------------------------------------------------------
(* the minimum job score *)

(* the result of the same call without a minimum job score *)
matchUnfiltered ==
  matchAgainstRequirements(jobs, skills, requirements,
                           [options EXCEPT !.minJobScore = <<>>])

(* a scored project, or achievement, of one of the given normalized jobs *)
projectOfJobs(scored, normalizedJobs, reqs) ==
  \E i \in 1..Len(normalizedJobs) : \E k \in 1..Len(normalizedJobs[i].projects) :
    scored = scoreProject(normalizedJobs[i].projects[k], reqs)

achievementOfJobs(scored, normalizedJobs, reqs) ==
  \E i \in 1..Len(normalizedJobs) : \E k \in 1..Len(normalizedJobs[i].achievements) :
    scored = scoreAchievement(normalizedJobs[i].achievements[k], reqs)

(* C28: with options.minJobScore given, every ranked job has a totalScore  *)
(* >= minJobScore, every selected project and achievement belongs to a job *)
(* that passed the filter, and the technology coverage and the fit bucket  *)
(* are those of the call without the filter; with minJobScore absent or 0  *)
(* no job is dropped                                                       *)
C28_MinJobScoreFiltersJobsNotCoverage ==
  Matched =>
    /\ Has(options.minJobScore) =>
         With(rankedNormalizedJobs(jobs, result.out.rankedJobs), LAMBDA passed :
           /\ \A i \in 1..Len(result.out.rankedJobs) :
                numLe(Get(options.minJobScore), result.out.rankedJobs[i].totalScore)
           /\ \A i \in 1..Len(result.out.selectedProjects) :
                projectOfJobs(result.out.selectedProjects[i], passed, requirements)
           /\ \A i \in 1..Len(result.out.selectedAchievements) :
                achievementOfJobs(result.out.selectedAchievements[i], passed, requirements)
           /\ result.out.technologyCoverage = matchUnfiltered.technologyCoverage
           /\ result.out.summary.overallFit = matchUnfiltered.summary.overallFit)
    /\ (~Has(options.minJobScore) \/ Get(options.minJobScore) = 0) =>
         Len(result.out.rankedJobs) = Len(jobs)

-----------------------------------------------------------------------------
(* the inputs of a call *)

(* C29: a call of matchAgainstRequirements, successful or failing, leaves *)
(* its inputs as they were: the job list and every job record in it, the  *)
(* skills inventory with its featured and deprecated lists, the           *)
(* requirements, the options it was given and the configuration, in the   *)
(* same order; and DEFAULT_MATCH_CONFIG stays what it was                 *)
C29_CallLeavesInputsUnchanged ==
  [][result'.op = "match" =>
       /\ jobs' = jobs
       /\ skills' = skills
       /\ requirements' = requirements
       /\ config' = config
       /\ options' \in OptionsPool
       /\ defaultMatchConfig' = defaultMatchConfig
       /\ defaultMatchConfig' = DEFAULT_MATCH_CONFIG]_vars

(* a successful call with a config override has ranked the second job of *)
(* the list first, and the list and the defaults are as before           *)
C29_RankedInOtherOrderThanGiven ==
  /\ Matched
  /\ Len(jobs) >= 2
  /\ options.config # NoOverride
  /\ result.out.rankedJobs[1].companyName = normalizeJob(jobs[2]).companyName
  /\ result.out.rankedJobs[1].companyName # normalizeJob(jobs[1]).companyName
  /\ defaultMatchConfig = DEFAULT_MATCH_CONFIG


(* ------------------------------------------------------------------------ *)
(* C30                                                                      *)
(* ------------------------------------------------------------------------ *)

(* the number of generate calls the retry loop has made *)
callsMade(trace) ==
  Cardinality({i \in DOMAIN trace : trace[i].kind = "call"})

(* the backoff delays the retry loop has waited, in order *)
waitsMade(trace) ==
  With(SelectSeq(trace, LAMBDA entry : entry.kind = "waited"),
       LAMBDA waited : [i \in DOMAIN waited |-> waited[i].ms])

(* generateWithRetry has returned or thrown *)
retrySettled ==
  retry.pc \in {"returned", "thrown"}

(* what the retry loop has done so far keeps to its contract *)
retryWithinContract ==
  /\ callsMade(retry.trace) <= retry.maxRetries + 1
  /\ \A i \in DOMAIN retry.trace :
       /\ retry.trace[i].kind = "resolved"
            => i = Len(retry.trace) /\ retry.pc = "returned"
       /\ ( /\ retry.trace[i].kind = "rejected"
            /\ \/ includes(Get(retry.trace[i].message), NotFoundText)
               \/ includes(Get(retry.trace[i].message), UnauthorizedText) )
            => i = Len(retry.trace) /\ retry.pc = "thrown"
       /\ retry.trace[i].kind = "waited"
            => /\ i > 1
               /\ retry.trace[i - 1].kind = "rejected"
               /\ retry.trace[i].ms = 1000 * 2^(retry.trace[i - 1].attempt)
               /\ retry.trace[i - 1].attempt < retry.maxRetries
               /\ i < Len(retry.trace) => retry.trace[i + 1].kind = "call"
       /\ (retry.trace[i].kind = "call" /\ retry.trace[i].attempt > 0)
            => retry.trace[i - 1].kind = "waited"
  /\ retry.pc = "waiting" => retry.attempt < retry.maxRetries
  /\ retry.pc = "returned"
       => Len(retry.trace) > 0 /\ retry.trace[Len(retry.trace)].kind = "resolved"
  /\ retry.pc = "thrown"
       => IF callsMade(retry.trace) = 0
            THEN retry.thrown = <<GenerateFailedError>>
            ELSE /\ retry.trace[Len(retry.trace)].kind = "rejected"
                 /\ retry.thrown = retry.trace[Len(retry.trace)].message

(* C30: generateWithRetry always settles, after at most maxRetries + 1     *)
(* generate calls: it returns the first response that resolves and calls   *)
(* no more, it rethrows at once an error whose message contains            *)
(* 'not found' or '401', it waits 1000 * 2^attempt ms between two attempts *)
(* and never after the last one, and otherwise it throws the error of the  *)
(* last attempt that failed.                                               *)
C30_RetrySettlesWithinBudget ==
  [](retryWithinContract) /\ <>(retrySettled)

(* the default call used up: three calls failed, with the waits of 1 s and *)
(* 2 s between them and none after the third, and the last error is thrown *)
C30_DefaultRetriesExhausted ==
  /\ retry.pc = "thrown"
  /\ retry.maxRetries = DefaultMaxRetries
  /\ callsMade(retry.trace) = 3
  /\ waitsMade(retry.trace) = <<1000, 2000>>
  /\ retry.trace[2].message = <<ServerBusyError>>
  /\ retry.thrown = <<TimeoutError>>
====
